---- MODULE Spec2Model ----
(***************************************************************************)
(* PyTextSummer: the retrying model callers, the credential rotation of    *)
(* LangChainSummarizer and the chunking / map-reduce pipeline of           *)
(* AdvancedPDFProcessor, as state machines.                                *)
(*                                                                         *)
(*   SpecCall   one logical call of a retrying caller (the three variants) *)
(*   FairCall   SpecCall with the sequential program always taking its     *)
(*              next step                                                  *)
(*   SpecProc   AdvancedPDFProcessor.process: chunk, map, reduce, enhance, *)
(*              save                                                       *)
(***************************************************************************)
EXTENDS Integers, Sequences, FiniteSets, TLC

(* ------------------------------ bounds -------------------------------- *)

\* Largest number of credentials in api_keys.
MaxKeys == 2

\* Model calls of one run that may take CallSeconds instead of no time.
MaxSlowCalls == 1

\* Page numbers of a document range over 1..MaxPages.
MaxPages == 3

\* chunk_size ranges over 1..MaxChunkSize, overlap over 0..MaxChunkSize + 1.
MaxChunkSize == 3

(* ------------------------- program constants -------------------------- *)

\* _call_llm_with_retry(prompt, max_retries=5); every caller uses the default.
max_retries_llm == 5

\* _call_api_with_retry(prompt, max_retries=3)
max_retries_api == 3

\* StrategicAPIProcessor._call_api(prompt, max_retries=5)
max_retries_smart == 5

\* _mark_key_rate_limited(cooldown_seconds=60)
cooldown_seconds == 60

\* time.sleep(5) before the retry after a failure that is no rate limit.
retry_sleep == 5

\* The base of the exponential backoff of the two single-key callers.
backoff_base == 30

\* min(30 * 2 ** attempt, 300) in StrategicAPIProcessor._call_api.
backoff_cap == 300

\* A model call may take minutes ("puo' richiedere 1-3 minuti").
CallSeconds == 60

\* AdvancedPDFProcessor(chunk_size=15, overlap=2) on a 32 page document.
default_chunk_size == 15

default_overlap == 2

\* The 32 pages of the scenario: two strides of 13 and a last window of 6.
ScenarioPages == 2 * default_chunk_size + default_overlap

(* ------------------------------- state -------------------------------- *)

VARIABLES
  variant,            \* which caller runs: "langchain", "advanced", "smart"
  env,                \* how the external model answers: "free", "throttle"
                      \* "quick" (at once: a text, a 429 or a 500) or
                      \* "calm" (at once, always a text)
  api_keys,           \* LangChainSummarizer.api_keys (secrets are 1, 2, ...)
  current_key_index,  \* LangChainSummarizer.current_key_index (from 0)
  key_cooldowns,      \* LangChainSummarizer.key_cooldowns: index -> end time
  llm_key,            \* the secret the client self.llm was built with (0: "")
  now,                \* time.time(), in seconds
  slow_calls,         \* model calls that took CallSeconds so far
  throttled_until,    \* external model: index -> end of its rate limiting
  callpc,             \* position inside the retrying caller
  total_attempts,     \* _call_llm_with_retry's total_attempts
  attempt,            \* the for loop's attempt of the single-key callers
  wait_time,          \* seconds of the sleep the caller is in
  response,           \* the value the caller returned
  error,              \* the exception the caller raised
  outcome,            \* how the latest model invocation ended
  invocations,        \* model invocations of the current call
  pages,              \* process: the (page number) sequence extracted
  chunk_size,         \* AdvancedPDFProcessor.chunk_size
  overlap,            \* AdvancedPDFProcessor.overlap
  i,                  \* create_chunks: window start index
  chunk_id,           \* create_chunks: next chunk id
  chunks,             \* create_chunks: the chunks built so far
  steps,              \* create_chunks: window steps taken
  pc,                 \* position inside process()
  map_index,          \* process: index of the chunk being summarized
  map_calls,          \* process: summarize_chunk calls started
  summaries,          \* process: the ChunkSummary list
  merged_latex,       \* process: result of merge_summaries
  final_latex,        \* process: result of enhance_latex
  files,              \* files written by process()
  events,             \* progress events with a percentage >= 0
  rate_limits,        \* rate limit signals the current call has met
  cycles,             \* waits with reset the current call has been through
  big,                \* LangChainSummarizer: estimated_tokens > MAX_INPUT_TOKENS
  doc_chunks,         \* LangChainSummarizer: len(chunks) of _refine_summarize
  refine_index,       \* _refine_summarize: the loop's i
  current_summary,    \* _refine_summarize: current_summary
  summary,            \* LangChainSummarizer.process: summary
  api_calls,          \* ProcessingStats.api_calls
  total_chunks,       \* ProcessingStats.total_chunks
  invoked,            \* model invocations of the calls that have ended
  runs,               \* process() invocations started on the instance
  doc_chars,          \* _stuff_summarize: len(markdown_text)
  cpc,                \* position inside compile_latex_to_pdf
  compiler,           \* compile_latex_to_pdf: compiler_name, "none" if none
  max_fix_attempts,   \* compile_latex_to_pdf: max_fix_attempts
  fix_attempt,        \* compile_latex_to_pdf: the for loop's attempt
  current_latex,      \* compile_latex_to_pdf: current_latex
  error_log,          \* compile_latex_to_pdf: error_log
  fix_calls,          \* fix calls compile_latex_to_pdf has started
  compiled,           \* the sources handed to the compiler, in order
  fixed,              \* the texts the fix calls returned, in order
  result,             \* compile_latex_to_pdf: the pair returned
  typeset_end,        \* how the latest run of the compiler ended
  cleaner,            \* the cleanup routine applied
  clean_in,           \* the model response handed to the cleanup
  clean_once,         \* the cleanup of clean_in
  clean_twice,        \* the cleanup of clean_once
  clean_pc,           \* how often the cleanup was applied
  process_btn,        \* MainWindow.process_btn is enabled
  dialog,             \* the SettingsDialog: "closed" or "open"
  gemini_api_key,     \* Settings.gemini_api_key of MainWindow.settings
  model_name,         \* Settings.model_name of MainWindow.settings
  worker,             \* position of ProcessingThread.run
  signals,            \* notifications emitted and not yet delivered
  llm_model,          \* the model name the worker's client was built with
  run_settings,       \* the settings as they were at worker.start()
  rotation,           \* the _rotate_api_key call under examination
  run_result,         \* how process() ended on the worker thread
  emitted,            \* the notifications the current worker has emitted
  alive,              \* worker threads started whose run() has not ended
  pages_data,         \* _identify_sections: the (page_num, lines) pairs
  sections,           \* _identify_sections: the list returned
  all_terms,          \* DocumentAnalysis.all_terms, by the term's text
  content_terms,      \* the terms the validated output contains whole
  content_words,      \* the terms a long word of which the output contains
  coverage            \* _calculate_coverage: the dict returned

callVars == <<callpc, total_attempts, attempt, wait_time, response, error,
              outcome, invocations>>
poolVars == <<api_keys, current_key_index, key_cooldowns, llm_key>>
envVars  == <<now, slow_calls, throttled_until>>
procVars == <<pages, chunk_size, overlap, i, chunk_id, chunks, steps, pc,
              map_index, map_calls, summaries, merged_latex, final_latex,
              files, events>>
histVars == <<rate_limits, cycles>>
langVars == <<big, doc_chunks, refine_index, current_summary, summary,
              api_calls, total_chunks, invoked, runs, doc_chars>>
compVars == <<cpc, compiler, max_fix_attempts, fix_attempt, current_latex,
              error_log, fix_calls, compiled, fixed, result, typeset_end>>
cleanVars == <<cleaner, clean_in, clean_once, clean_twice, clean_pc>>
runVars == <<run_result, emitted, alive>>
guiVars == <<process_btn, dialog, gemini_api_key, model_name, worker,
             signals, llm_model, run_settings, runVars>>
rotVars == <<rotation>>
smartVars == <<pages_data, sections, all_terms, content_terms, content_words,
               coverage>>
sideVars == <<cleanVars, guiVars, rotVars, smartVars>>
moreVars == <<langVars, compVars, sideVars>>
vars == <<variant, env, callVars, poolVars, envVars, procVars, histVars,
          moreVars>>

(* ----------------------- the external model --------------------------- *)

\* The texts of the exceptions the model client raises.
ApiErrors == {"429 too many requests", "quota exceeded", "rate limit reached",
              "resource_exhausted", "500 internal error"}

\* "429" in str(e)
Has429(e) == e = "429 too many requests"

\* "quota" in str(e).lower()
HasQuota(e) == e = "quota exceeded"

\* "rate" in str(e).lower()
HasRate(e) == e = "rate limit reached"

\* "resource_exhausted" in str(e).lower()
HasResourceExhausted(e) == e = "resource_exhausted"

\* A text is a sequence of tokens: "FENCE" (the three backquotes of a code
\* fence), "latex", "tex", " ", "\n" and "x" (any other run of characters).
\* The empty string is <<>>.
Fence == "FENCE"

PlainText == <<"x">>

FencedText == <<Fence, "latex", "\n", "x", "\n", Fence>>

\* The content of a response of the LangChain client: some text, fenced or
\* not, or nothing.
Contents == {PlainText, FencedText, <<>>}

\* A non-empty response.text of generate_content.
ApiTexts == {PlainText, FencedText}

Min(a, b) == IF a <= b THEN a ELSE b

Max(a, b) == IF a >= b THEN a ELSE b

RECURSIVE Pow2(_)
Pow2(n) == IF n = 0 THEN 1 ELSE 2 * Pow2(n - 1)

(* ------------------------------ KeyPool ------------------------------- *)

NumKeys == Len(api_keys)

\* self.api_keys[index], indices from 0
KeyAt(keys, index) == keys[index + 1]

\* self.key_cooldowns.get(index, 0)
CooldownEnd(cds, index) == IF index \in DOMAIN cds THEN cds[index] ELSE 0

\* A mark that always lands on the first credential.
MarkFirstKeyRateLimited(cds, index, t) ==
  [k \in (DOMAIN cds) \cup {0} |->
     IF k = 0 THEN t + cooldown_seconds ELSE cds[k]]

\* _mark_key_rate_limited: key_cooldowns[current_key_index] = time.time() + 60
MarkKeyRateLimited(cds, index, t) ==
  [k \in (DOMAIN cds) \cup {index} |->
     IF k = index THEN t + cooldown_seconds ELSE cds[k]]

\* A loop that gives up one candidate early and leaves the index where it
\* stopped.
RECURSIVE RotateLoopShort(_, _, _, _, _)
RotateLoopShort(keys, index, cds, t, left) ==
  IF left <= 1 THEN [ok |-> FALSE, index |-> index]
  ELSE LET next == (index + 1) % Len(keys)
       IN IF t >= CooldownEnd(cds, next)
          THEN [ok |-> TRUE, index |-> next]
          ELSE RotateLoopShort(keys, next, cds, t, left - 1)

\* The for loop of _rotate_api_key: advance, test the cooldown, stop at the
\* first index whose cooldown has ended.
RECURSIVE RotateLoop(_, _, _, _, _)
RotateLoop(keys, index, cds, t, left) ==
  IF left = 0 THEN [ok |-> FALSE, index |-> index]
  ELSE LET next == (index + 1) % Len(keys)
       IN IF t >= CooldownEnd(cds, next)
          THEN [ok |-> TRUE, index |-> next]
          ELSE RotateLoop(keys, next, cds, t, left - 1)

\* A rotation that reports a key found even when there is no other key.
RotateApiKeyAlwaysFinds(keys, index, cds, t) ==
  [ok |-> keys # <<>>, index |-> index]

\* _rotate_api_key
RotateApiKey(keys, index, cds, t) ==
  IF Len(keys) <= 1 THEN [ok |-> FALSE, index |-> index]
  ELSE RotateLoop(keys, index, cds, t, Len(keys))

\* max_retries * len(self.api_keys) if self.api_keys else max_retries
MaxTotalAttempts(keys) ==
  IF keys # <<>> THEN max_retries_llm * Len(keys) ELSE max_retries_llm

\* is_rate_limit of _call_llm_with_retry
IsRateLimitLlm(e) ==
  Has429(e) \/ HasQuota(e) \/ HasRate(e) \/ HasResourceExhausted(e)


(* ------------------- the answers of the external model ----------------- *)

EmptyMap == [k \in {} |-> 0]

\* The client built by _init_llm(api_key) sends api_key; the external model
\* refuses a throttled credential with a 429 and serves any other one.
Throttled(secret, t) ==
  secret \in DOMAIN throttled_until /\ t < throttled_until[secret]

\* What self.llm.invoke(prompt) can end with: "ok" or the text of an exception.
ModelAnswers ==
  IF env = "free" THEN {"ok"} \cup ApiErrors
  ELSE IF env = "quick" THEN {"ok", "429 too many requests", "500 internal error"}
  ELSE IF env = "calm" THEN {"ok"}
  ELSE IF Throttled(llm_key, now) THEN {"429 too many requests"} ELSE {"ok"}

\* Seconds a model call can take; a quick model answers at once.
Durations ==
  {0} \cup (IF env \notin {"quick", "calm"} /\ slow_calls < MaxSlowCalls
            THEN {CallSeconds} ELSE {})

\* No call makes more invocations than this.
MaxInvocations == max_retries_llm * MaxKeys + 1

(* ---------------- LangChainSummarizer._call_llm_with_retry ------------- *)

\* while total_attempts < max_total_attempts
LlmLoopRuns(t, keys) == t < MaxTotalAttempts(keys)

\* The except clause without its total_attempts += 1.
CountAttemptDropped(t) == t

\* total_attempts += 1, first statement of the except clause
CountAttempt(t) == t + 1

\* wait = 30: the sleep when every key is cooling down
wait == 30

\* A wait after which the cooldowns are still there.
ClearCooldownsKept(cds) == cds

\* self.key_cooldowns.clear() after the wait
ClearCooldowns(cds) == EmptyMap

\* A sleep that returns at once.
AfterSleepSkipped(t, seconds) == t

\* time.sleep(seconds): the clock after the sleep that starts at t
AfterSleep(t, seconds) == t + seconds

\* The while condition is false: the caller logs and returns "".
LlmLoopExit ==
  /\ variant = "langchain" /\ callpc = "loop"
  /\ ~LlmLoopRuns(total_attempts, api_keys)
  /\ callpc' = "returned"
  /\ response' = <<>>
  /\ UNCHANGED <<moreVars, histVars, variant, env, total_attempts, attempt, wait_time, error,
                 outcome, invocations, poolVars, envVars, procVars>>

\* response = self.llm.invoke(prompt); return response.content
LlmInvokeOk ==
  /\ variant = "langchain" /\ callpc = "loop"
  /\ LlmLoopRuns(total_attempts, api_keys)
  /\ invocations < MaxInvocations
  /\ "ok" \in ModelAnswers
  /\ \E d \in Durations, c \in Contents :
       /\ now' = now + d
       /\ slow_calls' = slow_calls + (IF d > 0 THEN 1 ELSE 0)
       /\ response' = c
  /\ callpc' = "returned"
  /\ outcome' = "success"
  /\ invocations' = invocations + 1
  /\ UNCHANGED <<moreVars, histVars, variant, env, total_attempts, attempt, wait_time, error,
                 poolVars, throttled_until, procVars>>

\* The invocation raises a rate limit error: count it, mark the current key,
\* rotate; continue at once if the rotation found a key, else go to the wait.
LlmInvokeRateLimited ==
  /\ variant = "langchain" /\ callpc = "loop"
  /\ LlmLoopRuns(total_attempts, api_keys)
  /\ invocations < MaxInvocations
  /\ \E d \in Durations, e \in ModelAnswers \cap ApiErrors :
       /\ IsRateLimitLlm(e)
       /\ now' = now + d
       /\ slow_calls' = slow_calls + (IF d > 0 THEN 1 ELSE 0)
       /\ LET marked == MarkKeyRateLimited(key_cooldowns, current_key_index, now')
              r == RotateApiKey(api_keys, current_key_index, marked, now')
          IN /\ key_cooldowns' = marked
             /\ current_key_index' = r.index
             /\ llm_key' = IF r.ok THEN KeyAt(api_keys, r.index) ELSE llm_key
             /\ callpc' = IF r.ok THEN "loop" ELSE "waiting"
             /\ wait_time' = IF r.ok THEN 0 ELSE wait
  /\ total_attempts' = CountAttempt(total_attempts)
  /\ outcome' = "rate_limited"
  /\ invocations' = invocations + 1
  /\ rate_limits' = rate_limits + 1
  /\ UNCHANGED <<moreVars, cycles, variant, env, attempt, response, error, api_keys,
                 throttled_until, procVars>>

\* time.sleep(wait); self.key_cooldowns.clear(); continue
LlmWaitReset ==
  /\ variant = "langchain" /\ callpc = "waiting"
  /\ now' = AfterSleep(now, wait_time)
  /\ key_cooldowns' = ClearCooldowns(key_cooldowns)
  /\ callpc' = "loop"
  /\ wait_time' = 0
  /\ cycles' = cycles + 1
  /\ UNCHANGED <<moreVars, rate_limits, variant, env, total_attempts, attempt, response, error,
                 outcome, invocations, api_keys, current_key_index, llm_key,
                 slow_calls, throttled_until, procVars>>

\* The invocation raises another error: count it; re-raise when the budget
\* is used up, else sleep 5 seconds and continue.
LlmInvokeError ==
  /\ variant = "langchain" /\ callpc = "loop"
  /\ LlmLoopRuns(total_attempts, api_keys)
  /\ invocations < MaxInvocations
  /\ \E d \in Durations, e \in ModelAnswers \cap ApiErrors :
       /\ ~IsRateLimitLlm(e)
       /\ now' = now + d
       /\ slow_calls' = slow_calls + (IF d > 0 THEN 1 ELSE 0)
       /\ IF CountAttempt(total_attempts) >= MaxTotalAttempts(api_keys)
          THEN /\ callpc' = "raised"
               /\ error' = e
               /\ wait_time' = 0
          ELSE /\ callpc' = "sleeping"
               /\ error' = error
               /\ wait_time' = retry_sleep
  /\ total_attempts' = CountAttempt(total_attempts)
  /\ outcome' = "error"
  /\ invocations' = invocations + 1
  /\ UNCHANGED <<moreVars, histVars, variant, env, attempt, response, poolVars, throttled_until,
                 procVars>>

\* time.sleep(5); continue
LlmRetrySleep ==
  /\ variant = "langchain" /\ callpc = "sleeping"
  /\ now' = AfterSleep(now, wait_time)
  /\ callpc' = "loop"
  /\ wait_time' = 0
  /\ UNCHANGED <<moreVars, histVars, variant, env, total_attempts, attempt, response, error,
                 outcome, invocations, poolVars, slow_calls, throttled_until,
                 procVars>>

\* The external model starts rate limiting a credential, once per credential,
\* for the length of a cooldown.
ServerThrottle ==
  /\ env = "throttle" /\ callpc \in {"loop", "waiting", "sleeping"}
  /\ \E s \in 1..NumKeys :
       /\ s \notin DOMAIN throttled_until
       /\ throttled_until' =
            [k \in (DOMAIN throttled_until) \cup {s} |->
               IF k = s THEN now + cooldown_seconds ELSE throttled_until[k]]
  /\ UNCHANGED <<moreVars, histVars, variant, env, callVars, poolVars, now, slow_calls, procVars>>


(* ---- AdvancedPDFProcessor._call_api_with_retry, StrategicAPIProcessor._call_api ---- *)

\* max_retries of the single-key caller
MaxRetries(v) == IF v = "advanced" THEN max_retries_api ELSE max_retries_smart

\* for attempt in range(max_retries)
ApiLoopRuns(a, v) == a < MaxRetries(v)

\* The rate limit test of the except clause:
\*   advanced: "429" in str(e) or "quota" in str(e).lower()
\*   smart:    "429" in str(e) or "quota" in err_str or "rate" in err_str
IsRateLimitApi(v, e) ==
  IF v = "advanced" THEN Has429(e) \/ HasQuota(e)
  ELSE Has429(e) \/ HasQuota(e) \/ HasRate(e)

\* advanced: (2 ** attempt) * 30; smart: min(30 * (2 ** attempt), 300)
Backoff(v, a) ==
  IF v = "advanced" THEN Pow2(a) * backoff_base
  ELSE Min(backoff_base * Pow2(a), backoff_cap)

\* A caller for which no attempt is the last one.
IsLastAttemptNever(a, v) == FALSE

\* elif attempt == max_retries - 1: raise
IsLastAttempt(a, v) == a = MaxRetries(v) - 1

\* What the except clause does with exception e on attempt a.
ApiHandle(e) ==
  IF IsRateLimitApi(variant, e)
  THEN /\ callpc' = "sleeping"
       /\ wait_time' = Backoff(variant, attempt)
       /\ error' = error
       /\ outcome' = "rate_limited"
  ELSE IF IsLastAttempt(attempt, variant)
  THEN /\ callpc' = "raised"
       /\ wait_time' = 0
       /\ error' = e
       /\ outcome' = "error"
  ELSE /\ callpc' = "sleeping"
       /\ wait_time' = retry_sleep
       /\ error' = error
       /\ outcome' = "error"

\* The for loop is over: return ""
ApiLoopExit ==
  /\ variant \in {"advanced", "smart"} /\ callpc = "loop"
  /\ ~ApiLoopRuns(attempt, variant)
  /\ callpc' = "returned"
  /\ response' = <<>>
  /\ UNCHANGED <<moreVars, histVars, variant, env, total_attempts, attempt, wait_time, error,
                 outcome, invocations, poolVars, envVars, procVars>>

\* generate_content answers with text: return response.text
ApiInvokeOk ==
  /\ variant \in {"advanced", "smart"} /\ callpc = "loop"
  /\ ApiLoopRuns(attempt, variant)
  /\ invocations < MaxInvocations
  /\ callpc' = "returned"
  /\ \E text \in ApiTexts : response' = text
  /\ outcome' = "success"
  /\ invocations' = invocations + 1
  /\ UNCHANGED <<moreVars, histVars, variant, env, total_attempts, attempt, wait_time, error,
                 poolVars, envVars, procVars>>

\* generate_content answers with no text. advanced raises
\* ValueError("Empty response") into its own except clause; smart falls
\* through to the next attempt.
ApiInvokeEmpty ==
  /\ variant \in {"advanced", "smart"} /\ callpc = "loop"
  /\ ApiLoopRuns(attempt, variant)
  /\ invocations < MaxInvocations
  /\ invocations' = invocations + 1
  /\ IF variant = "advanced"
     THEN /\ ApiHandle("Empty response")
          /\ attempt' = attempt
     ELSE /\ attempt' = attempt + 1
          /\ outcome' = "empty"
          /\ UNCHANGED <<callpc, wait_time, error>>
  /\ UNCHANGED <<moreVars, histVars, variant, env, total_attempts, response, poolVars, envVars,
                 procVars>>

\* generate_content raises
ApiInvokeError ==
  /\ variant \in {"advanced", "smart"} /\ callpc = "loop"
  /\ ApiLoopRuns(attempt, variant)
  /\ invocations < MaxInvocations
  /\ invocations' = invocations + 1
  /\ \E e \in ApiErrors : ApiHandle(e)
  /\ UNCHANGED <<moreVars, histVars, variant, env, total_attempts, attempt, response, poolVars,
                 envVars, procVars>>

\* time.sleep(...), then the next iteration of the for loop
ApiSleep ==
  /\ variant \in {"advanced", "smart"} /\ callpc = "sleeping"
  /\ attempt' = attempt + 1
  /\ callpc' = "loop"
  /\ wait_time' = 0
  /\ UNCHANGED <<moreVars, histVars, variant, env, total_attempts, response, error, outcome,
                 invocations, poolVars, envVars, procVars>>

(* ------------------------- one logical call ---------------------------- *)

\* The caller's locals at the start of a call.
CallStart ==
  /\ callpc = "loop" /\ total_attempts = 0 /\ attempt = 0 /\ wait_time = 0
  /\ response = <<>> /\ error = "" /\ outcome = "none" /\ invocations = 0

\* LangChainSummarizer.__init__: api_keys, or the settings' key if there is
\* one, else no key; index 0, no cooldown, the client built with the first key.
PoolInit(n) ==
  /\ api_keys = [j \in 1..n |-> j]
  /\ current_key_index = 0
  /\ key_cooldowns = EmptyMap
  /\ llm_key = IF n > 0 THEN 1 ELSE 0

EnvInit ==
  /\ now = 0 /\ slow_calls = 0 /\ throttled_until = EmptyMap

\* process() is not running.
ProcIdle ==
  /\ pages = <<>> /\ chunk_size = 0 /\ overlap = 0 /\ i = 0 /\ chunk_id = 0
  /\ chunks = <<>> /\ steps = 0 /\ pc = "call" /\ map_index = 0
  /\ map_calls = 0 /\ summaries = <<>> /\ merged_latex = <<>>
  /\ final_latex = <<>> /\ files = {} /\ events = <<>>

\* No signal met and no wait done at the start of a call.
HistInit == rate_limits = 0 /\ cycles = 0

\* LangChainSummarizer.process is not running; ProcessingStats() is all zero.
LangIdle ==
  /\ big = FALSE /\ doc_chunks = 0 /\ refine_index = 0 /\ summary = <<>>
  /\ current_summary = <<>>
  /\ api_calls = 0 /\ total_chunks = 0 /\ invoked = 0 /\ runs = 0
  /\ doc_chars = 0

\* compile_latex_to_pdf is not running.
CompIdle ==
  /\ cpc = "idle" /\ compiler = "none" /\ max_fix_attempts = 0
  /\ fix_attempt = 0 /\ current_latex = <<>> /\ error_log = ""
  /\ fix_calls = 0 /\ compiled = <<>> /\ fixed = <<>>
  /\ result = [ok |-> FALSE, value |-> ""] /\ typeset_end = "none"

\* No cleanup is being examined.
CleanIdle ==
  /\ cleaner = "none" /\ clean_in = <<>> /\ clean_once = <<>>
  /\ clean_twice = <<>> /\ clean_pc = "idle"

\* No _rotate_api_key call is being examined.
RotIdle == rotation = [called |-> FALSE, ok |-> FALSE, from |-> 0]

\* No document analysed and no output validated.
SmartIdle ==
  /\ pages_data = <<>> /\ sections = <<>>
  /\ all_terms = <<>> /\ content_terms = {} /\ content_words = {}
  /\ coverage = [found |-> 0, total |-> 0, percentage |-> 0, missing |-> {}]

\* No window is open.
GuiIdle ==
  /\ process_btn = FALSE /\ dialog = "closed" /\ gemini_api_key = ""
  /\ model_name = "" /\ worker = "none" /\ signals = <<>>
  /\ llm_model = "" /\ run_settings = <<"", "">>
  /\ run_result = "none" /\ emitted = <<>> /\ alive = 0

InitCall ==
  /\ HistInit /\ LangIdle /\ CompIdle /\ CleanIdle /\ GuiIdle /\ RotIdle /\ SmartIdle
  /\ variant \in {"langchain", "advanced", "smart"}
  /\ env \in {"free", "throttle"}
  /\ \E n \in 0..MaxKeys :
       /\ variant # "langchain" => n = 0
       /\ env = "throttle" => (variant = "langchain" /\ n >= 1)
       /\ PoolInit(n)
  /\ EnvInit
  /\ CallStart
  /\ ProcIdle

LlmStep ==
  \/ LlmLoopExit
  \/ LlmInvokeOk
  \/ LlmInvokeRateLimited
  \/ LlmWaitReset
  \/ LlmInvokeError
  \/ LlmRetrySleep

ApiStep ==
  \/ ApiLoopExit
  \/ ApiInvokeOk
  \/ ApiInvokeEmpty
  \/ ApiInvokeError
  \/ ApiSleep

NextCall == LlmStep \/ ApiStep \/ ServerThrottle

SpecCall == InitCall /\ [][NextCall]_vars

\* The caller is sequential code: it always takes its next step. The external
\* model is under no obligation to throttle.
FairCall == SpecCall /\ WF_vars(LlmStep \/ ApiStep)


(* ------------------ AdvancedPDFProcessor.create_chunks ----------------- *)

\* A Python index of a slice bound on a list of length n: negative values
\* count from the end, everything is clamped to 0..n.
SliceBound(x, n) == IF x < 0 THEN Max(x + n, 0) ELSE Min(x, n)

\* seq[a:b] of Python
PySlice(seq, a, b) ==
  LET lo == SliceBound(a, Len(seq))
      hi == SliceBound(b, Len(seq))
  IN IF hi <= lo THEN <<>> ELSE SubSeq(seq, lo + 1, hi)

\* The loop test with <= for <.
ChunkLoopRunsInclusive(start, total_pages) == start <= total_pages

\* while i < total_pages
ChunkLoopRuns(start, total_pages) == start < total_pages

\* end_idx = min(i + self.chunk_size, total_pages)
EndIdx(start, size, total_pages) == Min(start + size, total_pages)

\* The window start advanced with the overlap added, not subtracted.
NextStartSkipping(start, size, over) == start + size + over

\* The window start advanced by one page too few.
NextStartShort(start, size, over) == start + size - over - 1

\* i += self.chunk_size - self.overlap
NextStart(start, size, over) == start + size - over

\* PDFChunk(chunk_id, start_page, end_page, text): the text is the pages of
\* the window in order, each under its "[Pagina n]" marker.
MakeChunk(id, chunk_pages) ==
  [chunk_id |-> id,
   start_page |-> chunk_pages[1],
   end_page |-> chunk_pages[Len(chunk_pages)],
   text |-> chunk_pages]

\* A loop that cannot end is followed for this many windows.
MaxChunks == MaxPages + 2

\* A progress event _report(msg, pct) with pct >= 0; n is the count its
\* message shows.
Event(msg, pct, n) == [msg |-> msg, pct |-> pct, n |-> n]

\* One iteration of the while loop of create_chunks. chunk_pages[0] of an
\* empty window raises IndexError, which nothing catches.
CreateChunksStep ==
  /\ pc = "chunking"
  /\ ChunkLoopRuns(i, Len(pages))
  /\ Len(chunks) < MaxChunks
  /\ LET chunk_pages == PySlice(pages, i, EndIdx(i, chunk_size, Len(pages)))
     IN IF chunk_pages = <<>>
        THEN /\ pc' = "failed"
             /\ error' = "IndexError"
             /\ UNCHANGED <<chunks, i, chunk_id>>
        ELSE /\ chunks' = Append(chunks, MakeChunk(chunk_id, chunk_pages))
             /\ i' = NextStart(i, chunk_size, overlap)
             /\ chunk_id' = chunk_id + 1
             /\ UNCHANGED <<pc, error>>
  /\ steps' = steps + 1
  /\ UNCHANGED <<moreVars, histVars, variant, env, callpc, total_attempts, attempt, wait_time,
                 response, outcome, invocations, poolVars, envVars, pages,
                 chunk_size, overlap, map_index, map_calls, summaries,
                 merged_latex, final_latex, files, events>>

\* The loop of create_chunks is over: return chunks; process reports
\* "Creati n chunk da elaborare" at 20%.
CreateChunksReturn ==
  /\ pc = "chunking"
  /\ ~ChunkLoopRuns(i, Len(pages))
  /\ pc' = "map"
  /\ map_index' = 0
  /\ events' = Append(events, Event("chunks_created", 20, Len(chunks)))
  /\ UNCHANGED <<moreVars, histVars, variant, env, callVars, poolVars, envVars, pages,
                 chunk_size, overlap, i, chunk_id, chunks, steps, map_calls,
                 summaries, merged_latex, final_latex, files>>

(* -------------------- AdvancedPDFProcessor.process --------------------- *)

\* The caller's locals when _call_api_with_retry is entered.
EnterCall ==
  /\ callpc' = "loop" /\ total_attempts' = 0 /\ attempt' = 0
  /\ wait_time' = 0 /\ response' = <<>> /\ error' = "" /\ outcome' = "none"
  /\ invocations' = 0

\* The caller's frame is gone after its return value was used.
LeaveCall ==
  /\ callpc' = "idle"
  /\ UNCHANGED <<total_attempts, attempt, wait_time, response, error,
                 outcome, invocations>>

\* 20 + int((i / len(chunks)) * 50)
MapProgress(index, total) == 20 + ((index * 50) \div total)

\* A ChunkSummary that does not keep the id of its chunk.
MakeSummaryNoId(chunk, text) == [chunk_id |-> 0, summary |-> text]

\* ChunkSummary(chunk_id, title, summary, ...) of summarize_chunk
MakeSummary(chunk, text) == [chunk_id |-> chunk.chunk_id, summary |-> text]

\* Stage 1 and the start of stage 2: extract the pages, report 5 and 10,
\* report 12 if a table of contents was detected, report 15.
ProcExtract ==
  /\ pc = "start"
  /\ \E toc \in BOOLEAN :
       events' = events \o <<Event("extract", 5, 0),
                             Event("extracted", 10, Len(pages))>>
                        \o (IF toc THEN <<Event("toc", 12, 0)>> ELSE <<>>)
                        \o <<Event("chunking", 15, 0)>>
  /\ pc' = "chunking"
  /\ i' = 0 /\ chunk_id' = 0 /\ chunks' = <<>>
  /\ UNCHANGED <<moreVars, histVars, variant, env, callVars, poolVars, envVars, pages,
                 chunk_size, overlap, steps, map_index, map_calls, summaries,
                 merged_latex, final_latex, files>>

\* for i, chunk in enumerate(chunks): report, then summarize_chunk(chunk)
\* enters _call_api_with_retry.
MapCall ==
  /\ pc = "map" /\ map_index < Len(chunks)
  /\ events' = Append(events, Event("map_chunk",
                                    MapProgress(map_index, Len(chunks)),
                                    map_index + 1))
  /\ map_calls' = map_calls + 1
  /\ EnterCall
  /\ pc' = "map_call"
  /\ UNCHANGED <<moreVars, histVars, variant, env, poolVars, envVars, pages, chunk_size, overlap,
                 i, chunk_id, chunks, steps, map_index, summaries,
                 merged_latex, final_latex, files>>

\* summarize_chunk returns: summaries.append(summary), the sleep between
\* chunks, the next chunk.
MapReturn ==
  /\ pc = "map_call" /\ callpc = "returned"
  /\ summaries' = Append(summaries, MakeSummary(chunks[map_index + 1], response))
  /\ map_index' = map_index + 1
  /\ pc' = "map"
  /\ LeaveCall
  /\ UNCHANGED <<moreVars, histVars, variant, env, poolVars, envVars, pages, chunk_size, overlap,
                 i, chunk_id, chunks, steps, map_calls, merged_latex,
                 final_latex, files, events>>

\* An exception of _call_api_with_retry leaves process(): nothing catches it.
CallRaised ==
  /\ pc \in {"map_call", "reduce_call", "enhance_call"} /\ callpc = "raised"
  /\ pc' = "failed"
  /\ UNCHANGED <<moreVars, histVars, variant, env, callVars, poolVars, envVars, pages,
                 chunk_size, overlap, i, chunk_id, chunks, steps, map_index,
                 map_calls, summaries, merged_latex, final_latex, files,
                 events>>

\* The map loop is over: report 70 and 75, merge_summaries enters the caller.
ReduceCall ==
  /\ pc = "map" /\ ~(map_index < Len(chunks))
  /\ events' = events \o <<Event("map_done", 70, Len(summaries)),
                           Event("reduce", 75, 0)>>
  /\ EnterCall
  /\ pc' = "reduce_call"
  /\ UNCHANGED <<moreVars, histVars, variant, env, poolVars, envVars, pages, chunk_size, overlap,
                 i, chunk_id, chunks, steps, map_index, map_calls, summaries,
                 merged_latex, final_latex, files>>

\* merge_summaries returns; report 90; enhance_latex enters the caller.
ReduceReturn ==
  /\ pc = "reduce_call" /\ callpc = "returned"
  /\ merged_latex' = response
  /\ events' = Append(events, Event("enhance", 90, 0))
  /\ EnterCall
  /\ pc' = "enhance_call"
  /\ UNCHANGED <<moreVars, histVars, variant, env, poolVars, envVars, pages, chunk_size, overlap,
                 i, chunk_id, chunks, steps, map_index, map_calls, summaries,
                 final_latex, files>>

(* ------------------- AdvancedPDFProcessor._clean_latex ----------------- *)

IsSpace(tok) == tok \in {" ", "\n"}

\* str.strip()
RECURSIVE Strip(_)
Strip(text) ==
  IF text = <<>> THEN text
  ELSE IF IsSpace(text[1]) THEN Strip(Tail(text))
  ELSE IF IsSpace(text[Len(text)]) THEN Strip(SubSeq(text, 1, Len(text) - 1))
  ELSE text

\* The three patterns, in the order tried: a fence followed by "latex", by
\* "tex", by nothing.
FenceTags == <<"latex", "tex", "">>

\* Whether the opening of a pattern matches at position p, and the position
\* after it.
OpensAt(text, p, tag) ==
  /\ p <= Len(text) /\ text[p] = Fence
  /\ tag # "" => (p + 1 <= Len(text) /\ text[p + 1] = tag)

AfterOpen(p, tag) == IF tag = "" THEN p + 1 ELSE p + 2

\* Positions of a closing fence at or after position p.
Closers(text, p) == {q \in p..Len(text) : text[q] = Fence}

\* Positions where re.search can start a match of the pattern of tag.
MatchStarts(text, tag) ==
  {p \in 1..Len(text) :
     OpensAt(text, p, tag) /\ Closers(text, AfterOpen(p, tag)) # {}}

SetMin(S) == CHOOSE x \in S : \A y \in S : x <= y

\* match.group(1).strip() for the leftmost match: "\s*(.*?)\s*" up to the fence takes the
\* text up to the first closing fence, without the white space around it.
Group1(text, tag) ==
  LET p == SetMin(MatchStarts(text, tag))
      a == AfterOpen(p, tag)
      q == SetMin(Closers(text, a))
  IN Strip(SubSeq(text, a, q - 1))

\* The for loop over the patterns: the first one that matches decides.
RECURSIVE CleanLoop(_, _)
CleanLoop(text, k) ==
  IF k > Len(FenceTags) THEN text
  ELSE IF MatchStarts(text, FenceTags[k]) # {} THEN Group1(text, FenceTags[k])
  ELSE CleanLoop(text, k + 1)

\* _clean_latex
CleanLatex(text) == CleanLoop(Strip(text), 1)

(* ----------------- process: enhance and save ---------------------------- *)

\* enhance_latex returns _clean_latex(enhanced); report 95; write the output.
EnhanceReturn ==
  /\ pc = "enhance_call" /\ callpc = "returned"
  /\ final_latex' = CleanLatex(response)
  /\ events' = Append(events, Event("save", 95, 0))
  /\ files' = files \cup {[name |-> "output", content |-> CleanLatex(response)]}
  /\ pc' = "save_summaries"
  /\ LeaveCall
  /\ UNCHANGED <<moreVars, histVars, variant, env, poolVars, envVars, pages, chunk_size, overlap,
                 i, chunk_id, chunks, steps, map_index, map_calls, summaries,
                 merged_latex>>

\* The side file: one entry per summary, in order; report 100; return.
SaveSummaries ==
  /\ pc = "save_summaries"
  /\ files' = files \cup
       {[name |-> "summaries",
         content |-> [k \in 1..Len(summaries) |-> summaries[k].chunk_id]]}
  /\ events' = Append(events, Event("done", 100, 0))
  /\ pc' = "done"
  /\ UNCHANGED <<moreVars, histVars, variant, env, callVars, poolVars, envVars, pages,
                 chunk_size, overlap, i, chunk_id, chunks, steps, map_index,
                 map_calls, summaries, merged_latex, final_latex>>

\* Strictly increasing sequences of page numbers: extract_text_by_pages skips
\* the pages without text.
RECURSIVE Ascending(_)
Ascending(S) ==
  IF S = {} THEN <<>>
  ELSE LET m == SetMin(S) IN <<m>> \o Ascending(S \ {m})

\* AdvancedPDFProcessor(chunk_size, overlap) about to process a document.
InitProc ==
  /\ HistInit /\ LangIdle /\ CompIdle /\ CleanIdle /\ GuiIdle /\ RotIdle /\ SmartIdle
  /\ variant = "advanced" /\ env = "free"
  /\ PoolInit(0)
  /\ EnvInit
  /\ callpc = "idle" /\ total_attempts = 0 /\ attempt = 0 /\ wait_time = 0
  /\ response = <<>> /\ error = "" /\ outcome = "none" /\ invocations = 0
  /\ \/ /\ pages \in {Ascending(S) : S \in SUBSET (1..MaxPages)}
        /\ chunk_size \in 1..MaxChunkSize
        /\ overlap \in 0..(MaxChunkSize + 1)
     \/ /\ pages = [k \in 1..ScenarioPages |-> k]
        /\ chunk_size = default_chunk_size
        /\ overlap = default_overlap
  /\ i = 0 /\ chunk_id = 0 /\ chunks = <<>> /\ steps = 0
  /\ pc = "start" /\ map_index = 0 /\ map_calls = 0 /\ summaries = <<>>
  /\ merged_latex = <<>> /\ final_latex = <<>> /\ files = {} /\ events = <<>>

ProcStep ==
  \/ ProcExtract
  \/ CreateChunksStep
  \/ CreateChunksReturn
  \/ MapCall
  \/ MapReturn
  \/ CallRaised
  \/ ReduceCall
  \/ ReduceReturn
  \/ EnhanceReturn
  \/ SaveSummaries

NextProc == ProcStep \/ ApiStep

SpecProc == InitProc /\ [][NextProc]_vars

(* --------------------- LangChainSummarizer.process --------------------- *)

\* Chunks _split_into_chunks may yield for a document beyond the token limit.
MaxDocChunks == 2

\* The variables of AdvancedPDFProcessor alone.
chunkVars == <<pages, chunk_size, overlap, i, chunk_id, chunks, steps,
               map_index, map_calls, summaries, merged_latex, final_latex>>

\* _call_llm_with_retry is entered: its locals, no signal met, no wait done.
EnterLlm ==
  /\ EnterCall
  /\ rate_limits' = 0 /\ cycles' = 0

\* self.stats.api_calls += 1 after a call has returned; the invocations the
\* call has made join those of the calls before it.
CallCounted ==
  /\ api_calls' = api_calls + 1
  /\ invoked' = invoked + invocations

\* 30 + int((i / len(chunks)) * 50)
RefineProgress(index, total) == 30 + ((index * 50) \div total)

\* The keys of stats_dict, in the order written.
StatsKeys ==
  <<"total_pages", "total_chunks", "total_characters_input",
    "total_characters_output", "processing_time_seconds", "api_calls",
    "output_files">>

\* process up to the first model call: report 0, extract (5, 10), report 20,
\* _stuff_summarize reports 25; a document beyond the limit is split (25, 15,
\* 20) and refined (25, 30), the others go in a single call (30, 35).
LangStart ==
  /\ variant = "langchain" /\ pc = "start"
  /\ events' = events
       \o <<Event("process", 0, 0), Event("extract", 5, 0),
            Event("extracted", 10, 0), Event("strategy", 20, 0),
            Event("estimate", 25, 0)>>
       \o (IF big
           THEN <<Event("too_big", 25, 0), Event("split", 15, 0),
                  Event("chunks_created", 20, doc_chunks),
                  Event("refine", 25, 0), Event("refine_chunk", 30, 1)>>
           ELSE <<Event("stuff", 30, 0), Event("single_call", 35, 0)>>)
  /\ total_chunks' = IF big THEN doc_chunks ELSE total_chunks
  /\ refine_index' = IF big THEN 1 ELSE refine_index
  /\ pc' = IF big THEN "refine_call" ELSE "stuff_call"
  /\ EnterLlm
  /\ UNCHANGED <<sideVars, compVars, variant, env, poolVars, envVars, chunkVars, files, big,
                 doc_chunks, current_summary, summary, api_calls, invoked,
                 runs, doc_chars>>

\* The summary is there: report 80, write the summary text, _convert_to_latex
\* reports 85 and enters the caller.
SummaryDone(text) ==
  /\ summary' = text
  /\ events' = events \o <<Event("summarized", 80, 0),
                           Event("convert", 85, 0)>>
  /\ files' = files \cup {[name |-> "summary_txt", content |-> text]}
  /\ pc' = "convert_call"

\* The single call of _stuff_summarize returns.
StuffReturn ==
  /\ variant = "langchain" /\ pc = "stuff_call" /\ callpc = "returned"
  /\ CallCounted
  /\ total_chunks' = 1
  /\ SummaryDone(response)
  /\ EnterLlm
  /\ UNCHANGED <<sideVars, compVars, variant, env, poolVars, envVars, chunkVars, big, doc_chunks,
                 refine_index, current_summary, runs, doc_chars>>

\* A loop that goes on with the summary of the first chunk.
NextSummaryKeepsFirst(index, existing, refined) ==
  IF index = 1 THEN refined ELSE existing

\* 'current_summary = self._call_llm_with_retry(INITIAL_PROMPT...)' for the
\* first chunk, 'current_summary = refined' for the others.
NextSummary(index, existing, refined) == refined

\* A call of _refine_summarize returns: the next chunk if there is one (after
\* the sleep of one second for every chunk but the first), else the summary.
\* The call for the next chunk gets current_summary as existing_answer.
RefineReturn ==
  /\ variant = "langchain" /\ pc = "refine_call" /\ callpc = "returned"
  /\ CallCounted
  /\ current_summary' = NextSummary(refine_index, current_summary, response)
  /\ now' = IF refine_index >= 2 THEN AfterSleep(now, 1) ELSE now
  /\ IF refine_index < doc_chunks
     THEN /\ refine_index' = refine_index + 1
          /\ events' = Append(events,
               Event("refine_chunk",
                     RefineProgress(refine_index + 1, doc_chunks),
                     refine_index + 1))
          /\ UNCHANGED <<pc, summary, files>>
     ELSE /\ SummaryDone(NextSummary(refine_index, current_summary,
                                     response))
          /\ UNCHANGED refine_index
  /\ EnterLlm
  /\ UNCHANGED <<sideVars, compVars, variant, env, poolVars, slow_calls, throttled_until,
                 chunkVars, big, doc_chunks, total_chunks, runs,
                 doc_chars>>

(* ------------- the line based stripping of _convert_to_latex ----------- *)

\* Positions of the line ends of a text.
Newlines(text) == {p \in 1..Len(text) : text[p] = "\n"}

SetMax(S) == CHOOSE x \in S : \A y \in S : x >= y

\* lines[1:-1] if lines[-1].startswith(fence) else lines[1:], joined again,
\* for a text that starts with a fence; lines = text.split("\n").
DropFenceLines(text) ==
  IF Newlines(text) = {} THEN <<>>
  ELSE LET first == SetMin(Newlines(text))
           last == SetMax(Newlines(text))
       IN IF last < Len(text) /\ text[last + 1] = Fence
          THEN SubSeq(text, first + 1, last - 1)
          ELSE SubSeq(text, first + 1, Len(text))

\* latex_content.strip(), then the fence lines dropped if it starts with one.
StripFenceLines(text) ==
  LET t == Strip(text)
  IN IF t # <<>> /\ t[1] = Fence THEN DropFenceLines(t) ELSE t

\* _convert_to_latex returns: count the call, strip, build the document;
\* process writes the LaTeX text and the statistics and reports 100.
ConvertReturn ==
  /\ variant = "langchain" /\ pc = "convert_call" /\ callpc = "returned"
  /\ CallCounted
  /\ files' = files \cup
       {[name |-> "latex_txt", content |-> StripFenceLines(response)],
        [name |-> "stats", content |-> StatsKeys]}
  /\ events' = Append(events, Event("done", 100, 0))
  /\ pc' = "done"
  /\ LeaveCall
  /\ UNCHANGED <<sideVars, compVars, variant, env, poolVars, envVars, chunkVars, histVars, big,
                 doc_chunks, refine_index, current_summary, summary,
                 total_chunks, runs, doc_chars>>

\* An exception of _call_llm_with_retry leaves process(): nothing catches it.
LangCallRaised ==
  /\ variant = "langchain" /\ callpc = "raised"
  /\ pc \in {"stuff_call", "refine_call", "convert_call"}
  /\ pc' = "failed"
  /\ UNCHANGED <<sideVars, compVars, variant, env, callVars, poolVars, envVars, chunkVars,
                 histVars, langVars, files, events>>

\* MAX_INPUT_TOKENS of _stuff_summarize
MAX_INPUT_TOKENS == 800000

\* "~4 caratteri = 1 token"
chars_per_token == 4

\* estimated_tokens = len(markdown_text) // 4
EstimatedTokens(chars) == chars \div chars_per_token

\* A test that also sends a document of exactly the limit to the chunks.
TooBigInclusive(chars) == EstimatedTokens(chars) >= MAX_INPUT_TOKENS

\* if estimated_tokens > MAX_INPUT_TOKENS
TooBig(chars) == EstimatedTokens(chars) > MAX_INPUT_TOKENS

\* The longest text that goes in a single call.
LongestStuffed == chars_per_token * MAX_INPUT_TOKENS + (chars_per_token - 1)

\* The two lengths at the limit.
LimitLengths == {LongestStuffed, LongestStuffed + 1}

\* A short text, a text of exactly the limit, the two lengths at the limit
\* and a longer text.
DocLengths ==
  {1, chars_per_token * MAX_INPUT_TOKENS, 2 * LongestStuffed}
    \cup LimitLengths

\* LangChainSummarizer(api_keys=...) about to process a document of one of
\* the given lengths, the model answering as e says; a document beyond the
\* token limit is split into some chunks.
LangReady(e, lengths) ==
  /\ variant = "langchain" /\ env = e
  /\ \E n \in 0..MaxKeys : PoolInit(n)
  /\ EnvInit
  /\ HistInit /\ CompIdle /\ CleanIdle /\ GuiIdle /\ RotIdle /\ SmartIdle
  /\ callpc = "idle" /\ total_attempts = 0 /\ attempt = 0 /\ wait_time = 0
  /\ response = <<>> /\ error = "" /\ outcome = "none" /\ invocations = 0
  /\ pages = <<>> /\ chunk_size = 0 /\ overlap = 0 /\ i = 0 /\ chunk_id = 0
  /\ chunks = <<>> /\ steps = 0 /\ map_index = 0 /\ map_calls = 0
  /\ summaries = <<>> /\ merged_latex = <<>> /\ final_latex = <<>>
  /\ pc = "start" /\ files = {} /\ events = <<>>
  /\ doc_chars \in lengths
  /\ big = TooBig(doc_chars)
  /\ doc_chunks \in IF big THEN 1..MaxDocChunks ELSE {0}
  /\ refine_index = 0 /\ current_summary = <<>> /\ summary = <<>>
  /\ api_calls = 0 /\ total_chunks = 0 /\ invoked = 0 /\ runs = 1

InitLang == LangReady("quick", LimitLengths)

LangStep ==
  \/ LangStart
  \/ StuffReturn
  \/ RefineReturn
  \/ ConvertReturn
  \/ LangCallRaised

NextLang == LangStep \/ LlmStep

SpecLang == InitLang /\ [][NextLang]_vars

(* ------------- LangChainSummarizer.compile_latex_to_pdf ---------------- *)

\* Largest max_fix_attempts.
MaxFixAttempts == 3

\* How a run of the compiler ends without a PDF: it ran and made none or
\* could not be run ("no_pdf"), or subprocess.run met its timeout of 180 s.
TypesetFailures == {"no_pdf", "timeout"}

\* An error log that does not tell a timeout from another failure.
ErrorLogOfAnyFailure(how) == "log"

\* error_log after such a run: the log file, the output or the message of the
\* exception ("log"), or the message of the except clause of TimeoutExpired.
ErrorLogOf(how) == IF how = "timeout" THEN "Timeout" ELSE "log"

\* What error_log can hold when the compiler made no PDF.
ErrorLogs == {ErrorLogOf(how) : how \in TypesetFailures}

\* shutil.which: pdflatex, else tectonic, else none is found.
Compilers == {"pdflatex", "tectonic", "none"}

\* A fix call after every failure, the last one included.
FixAllowedAlways(a, m) == TRUE

\* if attempt < max_fix_attempts - 1: a fix call follows the failure
FixAllowed(a, m) == a < m - 1

\* A cleanup that keeps nothing of the text.
CleanFixDropsAll(text) == <<>>

\* The markdown cleanup of the fixed source: no strip, the fence lines
\* dropped if the text starts with a fence.
CleanFix(text) ==
  IF text # <<>> /\ text[1] = Fence THEN DropFenceLines(text) ELSE text

\* The pair compile_latex_to_pdf returns.
Returned(ok, value) == [ok |-> ok, value |-> value]

\* Up to the for loop: without a compiler return the failure at once, else
\* report 90 and start from latex_content.
CompStart ==
  /\ cpc = "start"
  /\ \E c \in Compilers :
       /\ compiler' = c
       /\ IF c = "none"
          THEN /\ result' = Returned(FALSE, "no_compiler")
               /\ cpc' = "returned"
               /\ UNCHANGED events
          ELSE /\ events' = Append(events, Event("compile", 90, 0))
               /\ cpc' = "typeset"
               /\ UNCHANGED result
  /\ UNCHANGED <<sideVars, variant, env, callVars, poolVars, envVars, chunkVars,
                 histVars, langVars, pc, files, max_fix_attempts,
                 fix_attempt, current_latex, error_log, fix_calls, compiled,
                 fixed, typeset_end>>

\* The compiler made the PDF: copy it to the output directory, report 95,
\* return (True, path).
CompileOk ==
  /\ cpc = "typeset" /\ fix_attempt < max_fix_attempts
  /\ compiled' = Append(compiled, current_latex)
  /\ files' = files \cup {[name |-> "pdf", content |-> current_latex]}
  /\ events' = Append(events, Event("compiled", 95, 0))
  /\ result' = Returned(TRUE, "pdf")
  /\ typeset_end' = "pdf"
  /\ cpc' = "returned"
  /\ UNCHANGED <<sideVars, variant, env, callVars, poolVars, envVars, chunkVars,
                 histVars, langVars, pc, compiler, max_fix_attempts,
                 fix_attempt, current_latex, error_log, fix_calls, fixed>>

\* The compiler made no PDF, timed out or could not run: keep the log, then
\* enter the fix call, or return (False, ...) after the last attempt.
CompileFails ==
  /\ cpc = "typeset" /\ fix_attempt < max_fix_attempts
  /\ Len(compiled) <= MaxFixAttempts + 1
  /\ compiled' = Append(compiled, current_latex)
  /\ \E how \in TypesetFailures :
       /\ typeset_end' = how
       /\ error_log' = ErrorLogOf(how)
       /\ IF FixAllowed(fix_attempt, max_fix_attempts)
          THEN /\ fix_calls' = fix_calls + 1
               /\ EnterLlm
               /\ cpc' = "fix_call"
               /\ UNCHANGED result
          ELSE /\ result' = Returned(FALSE, ErrorLogOf(how))
               /\ cpc' = "returned"
               /\ UNCHANGED <<fix_calls, callVars, histVars>>
  /\ UNCHANGED <<sideVars, variant, env, poolVars, envVars, chunkVars, langVars, pc,
                 files, events, compiler, max_fix_attempts, fix_attempt,
                 current_latex, fixed>>

\* The fix call returns: the cleaned text is the source of the next attempt.
FixReturn ==
  /\ cpc = "fix_call" /\ callpc = "returned"
  /\ CallCounted
  /\ fixed' = Append(fixed, response)
  /\ current_latex' = CleanFix(response)
  /\ fix_attempt' = fix_attempt + 1
  /\ cpc' = "typeset"
  /\ LeaveCall
  /\ UNCHANGED <<sideVars, variant, env, poolVars, envVars, chunkVars, histVars, pc,
                 files, events, big, doc_chunks, refine_index, current_summary,
                 summary, total_chunks, runs, doc_chars, compiler, max_fix_attempts, error_log,
                 fix_calls, compiled, result, typeset_end>>

\* An exception of the fix call leaves compile_latex_to_pdf.
FixRaised ==
  /\ cpc = "fix_call" /\ callpc = "raised"
  /\ cpc' = "raised"
  /\ UNCHANGED <<sideVars, variant, env, callVars, poolVars, envVars, procVars,
                 histVars, langVars, compiler, max_fix_attempts, fix_attempt,
                 current_latex, error_log, fix_calls, compiled, fixed,
                 result, typeset_end>>

\* A LangChainSummarizer with one credential about to compile a source with
\* a positive budget of attempts.
InitComp ==
  /\ variant = "langchain" /\ env = "quick"
  /\ PoolInit(1)
  /\ EnvInit /\ HistInit /\ LangIdle /\ ProcIdle /\ CleanIdle /\ GuiIdle
  /\ RotIdle /\ SmartIdle
  /\ callpc = "idle" /\ total_attempts = 0 /\ attempt = 0 /\ wait_time = 0
  /\ response = <<>> /\ error = "" /\ outcome = "none" /\ invocations = 0
  /\ cpc = "start" /\ compiler = "none"
  /\ max_fix_attempts \in 1..MaxFixAttempts
  /\ fix_attempt = 0
  /\ current_latex = PlainText
  /\ error_log = "" /\ fix_calls = 0 /\ compiled = <<>> /\ fixed = <<>>
  /\ result = Returned(FALSE, "") /\ typeset_end = "none"

CompStep ==
  \/ CompStart
  \/ CompileOk
  \/ CompileFails
  \/ FixReturn
  \/ FixRaised

NextComp == CompStep \/ LlmStep

SpecComp == InitComp /\ [][NextComp]_vars

\* compile_latex_to_pdf is sequential code: it always takes its next step.
FairComp == SpecComp /\ WF_vars(CompStep \/ LlmStep)

(* ------------------------ claims on the callers ------------------------ *)

\* The credentials a caller works with: the key list of LangChainSummarizer,
\* the one settings key of the two other callers.
CredentialCount == IF variant = "langchain" THEN Len(api_keys) ELSE 1

\* max_retries of the running caller
MaxRetriesOfVariant ==
  IF variant = "langchain" THEN max_retries_llm ELSE MaxRetries(variant)

\* C1: one call makes at most max_retries x (number of credentials) external
\* invocations, whatever the external model answers.
C1_RetryBound == invocations <= MaxRetriesOfVariant * CredentialCount

\* The bound of C1 for a caller that has at least one credential.
RetryBoundWithCredentials ==
  CredentialCount >= 1 => invocations <= MaxRetriesOfVariant * CredentialCount

\* C2: a call ends in one of two ways: it returns after a successful
\* response, or it raises the last error; it never returns normally when its
\* latest attempt failed.
C2_ReturnsOnlyOnSuccess ==
  /\ callpc = "returned" => outcome = "success"
  /\ callpc = "raised" => (outcome = "error" /\ error # "")

\* C3: every call terminates (returns or raises), also when each attempt on
\* each credential is answered with a rate limit error.
C3_CallTerminates == <>(callpc \in {"returned", "raised"})

\* A call of LangChainSummarizer with two keys has used its whole budget, its
\* last attempt rate limited, and has returned.
C3_Witness ==
  /\ variant = "langchain" /\ NumKeys = 2 /\ env = "free"
  /\ callpc = "returned" /\ outcome = "rate_limited"
  /\ total_attempts = MaxTotalAttempts(api_keys)

\* C9: when the external model rate limits each credential once, for the
\* length of a cooldown, and serves it again afterwards, the call eventually
\* returns a successful response.
C9_RotationLiveness ==
  (env = "throttle") => <>(callpc = "returned" /\ outcome = "success")

\* Both credentials were throttled, attempts failed on both, the caller waited
\* and then got a successful response.
C9_Witness ==
  /\ env = "throttle" /\ NumKeys = 2
  /\ DOMAIN throttled_until = {1, 2}
  /\ total_attempts >= 3
  /\ callpc = "returned" /\ outcome = "success"




(* ------------------- claims on create_chunks and process --------------- *)

\* chunk_size > 0 and 0 <= overlap < chunk_size
ValidParams == chunk_size > 0 /\ 0 <= overlap /\ overlap < chunk_size

Stride == chunk_size - overlap

\* create_chunks has returned its list.
ChunksReturned == pc \notin {"start", "chunking"} /\ error # "IndexError"

PageSet == {pages[k] : k \in 1..Len(pages)}

CeilDiv(a, b) == (a + b - 1) \div b

\* C4: with 0 <= overlap < chunk_size the returned chunks cover every input
\* page (each page lies in some [start_page, end_page]) and the chunk ids are
\* 0, 1, ..., k-1 in output order.
C4_ChunkCoverage ==
  (ValidParams /\ ChunksReturned) =>
    /\ \A p \in PageSet : \E k \in 1..Len(chunks) :
         chunks[k].start_page <= p /\ p <= chunks[k].end_page
    /\ \A k \in 1..Len(chunks) : chunks[k].chunk_id = k - 1

\* Three pages in overlapping chunks, returned.
C4_Witness ==
  /\ ValidParams /\ ChunksReturned
  /\ Len(pages) = 3 /\ overlap >= 1 /\ Len(chunks) >= 2

\* C5: with overlap >= chunk_size create_chunks, given pages, builds no chunk
\* and fails with a ConfigurationError.
C5_RejectsBadOverlap ==
  (overlap >= chunk_size /\ pages # <<>>) =>
    /\ chunks = <<>>
    /\ pc \notin {"start", "chunking"} =>
         (pc = "failed" /\ error = "ConfigurationError")

\* C6: with overlap < chunk_size the loop of create_chunks takes at most
\* ceil(n / (chunk_size - overlap)) window steps, is over after that many, and
\* every step moves the window start forward.
C6_ChunkTermination ==
  /\ [](ValidParams =>
          /\ steps <= CeilDiv(Len(pages), Stride)
          /\ steps = CeilDiv(Len(pages), Stride) => ~ChunkLoopRuns(i, Len(pages)))
  /\ [][(ValidParams /\ i' # i) => i' > i]_vars

\* The loop ended after three or more window steps, as many as the bound allows.
C6_Witness ==
  /\ ValidParams /\ ChunksReturned
  /\ steps >= 3 /\ steps = CeilDiv(Len(pages), Stride)

\* The pages of window k (from 1): positions [(k-1)*stride, min(.. + chunk_size, n))
Window(k) ==
  PySlice(pages, (k - 1) * Stride,
          Min((k - 1) * Stride + chunk_size, Len(pages)))

\* The (start_page, end_page) pairs of the chunks.
Ranges == [k \in 1..Len(chunks) |-> <<chunks[k].start_page, chunks[k].end_page>>]

IsScenario ==
  /\ Len(pages) = ScenarioPages
  /\ chunk_size = default_chunk_size /\ overlap = default_overlap

\* Chunk k holds the pages of window k, and the scenario gives three chunks.
WindowsAsComputed ==
  (ValidParams /\ ChunksReturned) =>
    /\ \A k \in 1..Len(chunks) : chunks[k].text = Window(k)
    /\ IsScenario => Ranges = << <<1, 15>>, <<14, 28>>, <<27, 32>> >>

\* C7: chunk k holds the pages of window k in input order, only the last
\* chunk may hold fewer than chunk_size pages, and 32 pages with chunk_size 15
\* and overlap 2 give the chunks 1-15, 14-28, 27-32.
C7_SlidingWindows ==
  (ValidParams /\ ChunksReturned) =>
    /\ \A k \in 1..Len(chunks) : chunks[k].text = Window(k)
    /\ \A k \in 1..(Len(chunks) - 1) : Len(chunks[k].text) = chunk_size
    /\ IsScenario => Ranges = << <<1, 15>>, <<14, 28>>, <<27, 32>> >>

\* C8: for an empty page sequence create_chunks returns no chunk and does not
\* raise, process makes no map call, and once the map loop is left the
\* completion of the map phase with 0 sections has been reported.
C8_EmptyDocument ==
  pages = <<>> =>
    /\ chunks = <<>> /\ map_calls = 0 /\ error # "IndexError"
    /\ pc \notin {"start", "chunking", "map"} =>
         \E k \in 1..Len(events) : events[k] = Event("map_done", 70, 0)

\* An empty document processed to the end.
C8_Witness == pages = <<>> /\ pc = "done" /\ map_calls = 0

\* A map call (a summary in the list) or the reduce call (the merged text
\* used by a later phase) ended with "", that is, without a successful
\* response.
ExhaustedCallUsed ==
  \/ \E k \in 1..Len(summaries) : summaries[k].summary = <<>>
  \/ pc \in {"enhance_call", "save_summaries", "done"} /\ merged_latex = <<>>

\* C10: when the model call of a map step or of the reduce step ends without
\* a successful response, process() is aborted: its result is used by no
\* later phase.
C10_ExhaustedCallAborts == ExhaustedCallUsed => pc = "failed"

(* --------------------- claims on the cooldown cycles ------------------- *)

\* A call of _call_llm_with_retry with one credential has returned the model's
\* text after failures that all were rate limit signals.
SingleKeySuccess ==
  /\ variant = "langchain" /\ NumKeys = 1
  /\ callpc = "returned" /\ outcome = "success"
  /\ rate_limits = total_attempts

\* C15: with a single credential, a call whose first k attempts met a rate
\* limit signal and whose next attempt succeeded returns the model's text
\* after k + 1 invocations and exactly k cycles of mark, failed rotation,
\* fixed sleep and reset of the cooldowns.
C15_SingleKeyCycles ==
  SingleKeySuccess =>
    /\ cycles = rate_limits
    /\ invocations = rate_limits + 1
    /\ rate_limits < max_retries_llm
    /\ response \in Contents
    /\ key_cooldowns = EmptyMap \/ rate_limits = 0

\* Two rate limit signals, two cycles, then the text.
C15_Witness ==
  SingleKeySuccess /\ rate_limits = 2 /\ cycles = 2 /\ invocations = 3

(* ------------------- claims on the runs of process() ------------------- *)

\* C11: a run of process() that has failed has written no file.
C11_NoPartialOutput == pc = "failed" => files = {}

\* C12: every progress event with a percentage other than -1 carries one in
\* 0..100, and these percentages never decrease over a run.
C12_MonotoneProgress ==
  \A k \in 1..Len(events) :
    /\ events[k].pct \in 0..100
    /\ k > 1 => events[k - 1].pct <= events[k].pct

\* C16: api_calls counts every model invocation of the calls made so far,
\* the failed attempts included.
C16_CounterCountsInvocations ==
  variant = "langchain" => api_calls = invoked

\* C18: without a credential no model invocation is made, and a run that has
\* ended has failed with a ConfigurationError.
C18_NoCredentialsNoInvocation ==
  (variant = "langchain" /\ NumKeys = 0) =>
    /\ invocations = 0 /\ invoked = 0
    /\ pc \in {"done", "failed"} =>
         (pc = "failed" /\ error = "ConfigurationError")

\* The names under which a variant writes its final document text.
FinalTextNames == {"output", "latex_txt"}

\* The least a statistics file holds, under the names the code gives them.
RequiredStatsKeys ==
  {"total_pages", "total_chunks", "api_calls", "total_characters_input",
   "total_characters_output", "processing_time_seconds"}

FileNames == {f.name : f \in files}

\* C19: a run that has reported 100% has written the final document text,
\* the side file with one entry per chunk and a statistics file with at
\* least the required keys.
C19_ArtifactsPersisted ==
  (events # <<>> /\ events[Len(events)].pct = 100) =>
    /\ FileNames \cap FinalTextNames # {}
    /\ "summaries" \in FileNames
    /\ \E f \in files :
         /\ f.name = "stats"
         /\ RequiredStatsKeys \subseteq {f.content[k] : k \in DOMAIN f.content}

(* -------------------- claims on the compile loop ----------------------- *)

\* compile_latex_to_pdf has ended, by a return or by the exception of a fix
\* call.
CompEnded == cpc \in {"returned", "raised"}

\* C13: compile_latex_to_pdf ends, whatever the fix calls return, after at
\* most max_fix_attempts runs of the compiler and at most
\* max_fix_attempts - 1 fix calls; when it returns after runs that made no
\* PDF, it returns False with the error log of the last run.
C13_CompileTerminates ==
  /\ <>CompEnded
  /\ [](cpc # "idle" =>
          /\ Len(compiled) <= max_fix_attempts
          /\ fix_calls <= max_fix_attempts - 1
          /\ (cpc = "returned" /\ compiled # <<>> /\ "pdf" \notin FileNames) =>
               /\ result = Returned(FALSE, error_log)
               /\ error_log \in ErrorLogs
               /\ Len(compiled) = max_fix_attempts)

\* The whole budget was used without a PDF, after fix calls that returned.
C13_Witness ==
  /\ cpc = "returned" /\ ~result.ok
  /\ max_fix_attempts = MaxFixAttempts
  /\ Len(compiled) = MaxFixAttempts /\ Len(fixed) = MaxFixAttempts - 1

\* What the cleanup leaves of a text a fix call returned.
ExpectedSource(text) == IF text = FencedText THEN PlainText ELSE text

\* C14: when the compiler makes the PDF at run k after k - 1 failures,
\* compile_latex_to_pdf returns True with the path of the PDF, the PDF is in
\* the output directory, k - 1 fix calls were made, and run j + 1 compiled
\* the source fix call j returned.
C14_SucceedsAfterFixes ==
  (cpc = "returned" /\ result.ok) =>
    /\ result.value = "pdf"
    /\ [name |-> "pdf", content |-> compiled[Len(compiled)]] \in files
    /\ Len(compiled) <= max_fix_attempts
    /\ fix_calls = Len(compiled) - 1
    /\ Len(fixed) = fix_calls
    /\ \A j \in 1..Len(fixed) : compiled[j + 1] = ExpectedSource(fixed[j])

\* The compiler failed twice and made the PDF at the third run, of a source
\* that came fenced from the second fix call.
C14_Witness ==
  /\ cpc = "returned" /\ result.ok
  /\ max_fix_attempts = 3 /\ Len(compiled) = 3
  /\ fixed[2] = FencedText /\ compiled[3] = PlainText

(* ---------------------- the cleanup routines --------------------------- *)

\* Longest model response handed to a cleanup.
MaxTextLen == 4

\* "DOC" stands for the \documentclass line, "END" for \end{document}.
Tokens == {Fence, "latex", "tex", " ", "\n", "x", "DOC"}

\* The model responses of at most MaxTextLen tokens.
Texts == UNION {[1..n -> Tokens] : n \in 0..MaxTextLen}

\* _clean_content of OutputValidator: the code of _clean_latex.
CleanContent(text) == CleanLatex(text)

\* format_latex_output: the fences stripped as in _clean_latex, then the
\* document structure put around a text without \documentclass.
FormatLatexOutput(text) ==
  LET t == CleanLatex(text)
  IN IF \E p \in 1..Len(t) : t[p] = "DOC" THEN t
     ELSE <<"DOC", "\n">> \o t \o <<"\n", "END">>

\* The cleanup routines of the pipelines.
Cleaners ==
  {"_clean_latex", "_clean_content", "format_latex_output",
   "_convert_to_latex"}

\* The routine named c applied to a text.
Clean(c, text) ==
  CASE c = "_clean_latex" -> CleanLatex(text)
    [] c = "_clean_content" -> CleanContent(text)
    [] c = "format_latex_output" -> FormatLatexOutput(text)
    [] c = "_convert_to_latex" -> StripFenceLines(text)
    [] c = "compile_latex_to_pdf" -> CleanFix(text)

\* A cleanup routine is handed a model response.
CleanOnce ==
  /\ clean_pc = "input"
  /\ clean_once' = Clean(cleaner, clean_in)
  /\ clean_pc' = "once"
  /\ UNCHANGED <<guiVars, rotVars, smartVars, variant, env, callVars, poolVars, envVars,
                 procVars, histVars, langVars, compVars, cleaner, clean_in,
                 clean_twice>>

\* The routine is handed its own result.
CleanTwice ==
  /\ clean_pc = "once"
  /\ clean_twice' = Clean(cleaner, clean_once)
  /\ clean_pc' = "twice"
  /\ UNCHANGED <<guiVars, rotVars, smartVars, variant, env, callVars, poolVars, envVars,
                 procVars, histVars, langVars, compVars, cleaner, clean_in,
                 clean_once>>

\* One of the routines is about to be handed one of the responses.
CleanReady(routines, inputs) ==
  /\ variant = "advanced" /\ env = "free"
  /\ PoolInit(0)
  /\ EnvInit /\ HistInit /\ LangIdle /\ ProcIdle /\ CompIdle /\ GuiIdle
  /\ RotIdle /\ SmartIdle
  /\ callpc = "idle" /\ total_attempts = 0 /\ attempt = 0 /\ wait_time = 0
  /\ response = <<>> /\ error = "" /\ outcome = "none" /\ invocations = 0
  /\ cleaner \in routines
  /\ clean_in \in inputs
  /\ clean_once = <<>> /\ clean_twice = <<>> /\ clean_pc = "input"

\* Any routine, any response.
InitClean == CleanReady(Cleaners, Texts)

NextClean == CleanOnce \/ CleanTwice

SpecClean == InitClean /\ [][NextClean]_vars

(* ------------------------ claims on the cleanup ------------------------ *)

\* C17: each cleanup routine is idempotent: cleaning a cleaned response
\* leaves it as it is.
C17_CleanupIdempotent == clean_pc = "twice" => clean_twice = clean_once

\* The routines built on the three fence patterns are idempotent.
PatternCleanupIdempotent ==
  (clean_pc = "twice" /\ cleaner # "_convert_to_latex") =>
    clean_twice = clean_once

(* ------------------- the window and its worker thread ------------------ *)

\* Notifications that may wait for delivery to the UI thread.
MaxSignals == 2

\* Progress notifications of one run.
MaxProgress == 2

\* Worker threads followed at the same time.
MaxWorkers == 2

\* The keys and model names a user may have saved or may save.
SavedKeys == {"", "key_a"}

NewKeys == {"key_a", "key_b"}

ModelNames == {"gemini-2.0-flash", "gemini-pro"}

\* Everything but the window, its settings and its worker.
coreVars == <<variant, env, callVars, poolVars, envVars, procVars, histVars,
              langVars, compVars, cleanVars, rotVars, smartVars>>

\* MainWindow._start_processing: nothing without a key in the settings; else
\* the button is disabled and the worker is started with the settings object
\* of the window.
StartProcessing ==
  /\ process_btn /\ alive < MaxWorkers
  /\ gemini_api_key # ""
  /\ process_btn' = FALSE
  /\ worker' = "started"
  /\ run_settings' = <<gemini_api_key, model_name>>
  /\ alive' = alive + 1
  /\ emitted' = <<>> /\ run_result' = "none"
  /\ UNCHANGED <<coreVars, dialog, gemini_api_key, model_name, signals,
                 llm_model>>

\* MainWindow._open_settings: the settings button is never disabled.
OpenSettings ==
  /\ dialog = "closed"
  /\ dialog' = "open"
  /\ UNCHANGED <<coreVars, process_btn, gemini_api_key, model_name, worker,
                 signals, llm_model, run_settings, runVars>>

\* SettingsDialog._test_and_save_all: with a valid key the first valid key
\* and the model are written into the settings object; the dialog accepts.
\* Without one nothing is saved and the dialog stays open.
TestAndSaveAll ==
  /\ dialog = "open"
  /\ \E valid \in BOOLEAN, key \in NewKeys, model \in ModelNames :
       IF valid
       THEN /\ gemini_api_key' = key
            /\ model_name' = model
            /\ dialog' = "closed"
       ELSE UNCHANGED <<gemini_api_key, model_name, dialog>>
  /\ UNCHANGED <<coreVars, process_btn, worker, signals, llm_model,
                 run_settings, runVars>>

\* The dialog is dismissed.
CloseSettings ==
  /\ dialog = "open"
  /\ dialog' = "closed"
  /\ UNCHANGED <<coreVars, process_btn, gemini_api_key, model_name, worker,
                 signals, llm_model, run_settings, runVars>>

\* ProcessingThread.run: LangChainSummarizer(settings=self.settings, ...)
\* keeps the settings object; _init_llm reads settings.model_name.
WorkerConstruct ==
  /\ worker = "started"
  /\ llm_model' = model_name
  /\ worker' = "running"
  /\ UNCHANGED <<coreVars, process_btn, dialog, gemini_api_key, model_name,
                 signals, run_settings, runVars>>

\* A progress callback of the pipeline: self.progress.emit(msg, pct).
WorkerProgress ==
  /\ worker = "running" /\ Len(signals) < MaxSignals
  /\ Len(SelectSeq(emitted, LAMBDA m : m = "progress")) < MaxProgress
  /\ signals' = Append(signals, "progress")
  /\ emitted' = Append(emitted, "progress")
  /\ UNCHANGED <<coreVars, process_btn, dialog, gemini_api_key, model_name,
                 worker, llm_model, run_settings, run_result, alive>>

\* A rotation inside the pipeline: _rotate_api_key calls _init_llm, which
\* reads settings.model_name again.
WorkerRotate ==
  /\ worker = "running"
  /\ llm_model' = model_name
  /\ UNCHANGED <<coreVars, process_btn, dialog, gemini_api_key, model_name,
                 worker, signals, run_settings, runVars>>

\* A run() that reports success whatever process() did.
TerminalSignalAlwaysOk(how) == "finished_ok"

\* self.finished_ok.emit(output_path, stats) after process() has returned,
\* self.finished_error.emit(...) in the except clause.
TerminalSignal(how) ==
  IF how = "returned" THEN "finished_ok" ELSE "finished_error"

\* process() returned or raised: finished_ok or finished_error is emitted
\* and run() ends.
WorkerFinish ==
  /\ worker = "running" /\ Len(signals) < MaxSignals
  /\ \E how \in {"returned", "raised"} :
       /\ run_result' = how
       /\ signals' = Append(signals, TerminalSignal(how))
       /\ emitted' = Append(emitted, TerminalSignal(how))
  /\ worker' = "done"
  /\ alive' = alive - 1
  /\ UNCHANGED <<coreVars, process_btn, dialog, gemini_api_key, model_name,
                 llm_model, run_settings>>

\* A window whose every handler enables the button.
EnablesStartAlways(m) == TRUE

\* self.process_btn.setEnabled(True) is in _on_success and _on_error, not in
\* _on_progress.
EnablesStart(m) == m \in {"finished_ok", "finished_error"}

\* The UI thread gets the next notification: _on_progress, or _on_success /
\* _on_error, which enable the button again.
Deliver ==
  /\ signals # <<>>
  /\ signals' = Tail(signals)
  /\ process_btn' = IF EnablesStart(Head(signals)) THEN TRUE ELSE process_btn
  /\ UNCHANGED <<coreVars, dialog, gemini_api_key, model_name, worker,
                 llm_model, run_settings, runVars>>

\* The window is shown, with the key and the model of the saved settings.
InitGui ==
  /\ variant = "langchain" /\ env = "quick"
  /\ PoolInit(0)
  /\ EnvInit /\ HistInit /\ LangIdle /\ ProcIdle /\ CompIdle /\ CleanIdle
  /\ RotIdle /\ SmartIdle
  /\ callpc = "idle" /\ total_attempts = 0 /\ attempt = 0 /\ wait_time = 0
  /\ response = <<>> /\ error = "" /\ outcome = "none" /\ invocations = 0
  /\ process_btn = TRUE /\ dialog = "closed"
  /\ gemini_api_key \in SavedKeys
  /\ model_name \in ModelNames
  /\ worker = "none" /\ signals = <<>> /\ llm_model = ""
  /\ run_settings = <<"", "">>
  /\ run_result = "none" /\ emitted = <<>> /\ alive = 0

UiStep ==
  \/ StartProcessing
  \/ OpenSettings
  \/ TestAndSaveAll
  \/ CloseSettings
  \/ Deliver

WorkerStep ==
  \/ WorkerConstruct
  \/ WorkerProgress
  \/ WorkerRotate
  \/ WorkerFinish

NextGui == UiStep \/ WorkerStep

SpecGui == InitGui /\ [][NextGui]_vars

(* ------------------------ claims on the threads ------------------------ *)

\* The worker thread is between its start and the end of process().
WorkerAlive == worker \in {"started", "running"}

\* C20: while a run executes on the worker thread, the settings the pipeline
\* reads are as they were when the worker was started: the UI thread has
\* not written them.
C20_UiLeavesSettingsAlone ==
  WorkerAlive => <<gemini_api_key, model_name>> = run_settings

(* ------------- process() invoked again on the same instance ------------ *)

\* process() invocations looked at on one instance.
MaxRuns == 2

\* process() is invoked again on the instance whose run has completed, with
\* a document of any of the lengths: the locals start afresh, self.stats is the object that
\* __init__ created and the files of the earlier run are still there.
LangAgain ==
  /\ variant = "langchain" /\ pc = "done" /\ runs < MaxRuns
  /\ runs' = runs + 1
  /\ pc' = "start"
  /\ \E n \in DocLengths :
       /\ doc_chars' = n
       /\ big' = TooBig(n)
       /\ doc_chunks' \in IF TooBig(n) THEN 1..MaxDocChunks ELSE {0}
  /\ events' = <<>> /\ refine_index' = 0 /\ summary' = <<>>
  /\ current_summary' = <<>>
  /\ UNCHANGED <<sideVars, compVars, variant, env, callVars, poolVars,
                 envVars, chunkVars, histVars, files, api_calls,
                 total_chunks, invoked>>

\* An instance in front of a model that always answers.
InitRuns == LangReady("calm", DocLengths)

\* With such a model every invocation returns a text, so the caller takes no
\* other step than LlmInvokeOk and no call raises.
NextRuns ==
  \/ LangStart
  \/ StuffReturn
  \/ RefineReturn
  \/ ConvertReturn
  \/ LlmInvokeOk
  \/ LangAgain

SpecRuns == InitRuns /\ [][NextRuns]_vars

\* The chunks of the document of the current run.
RunChunks == IF big THEN doc_chunks ELSE 1

\* The model calls of the current run: one per chunk and the conversion.
RunCalls == RunChunks + 1

\* C21: the statistics a completed run returns describe that run only, also
\* when process() was invoked before on the instance: api_calls is the number
\* of model calls of the run and total_chunks the number of its chunks.
C21_StatsOfThisRun ==
  (variant = "langchain" /\ pc = "done") =>
    /\ api_calls = RunCalls
    /\ total_chunks = RunChunks

\* The first run on an instance and the chunk count of every run are right.
C21_FirstRunAndChunks ==
  (variant = "langchain" /\ pc = "done") =>
    /\ total_chunks = RunChunks
    /\ runs = 1 => api_calls = RunCalls

(* --------------------- the rate limited attempt ------------------------ *)

\* The step is an invocation of the model that ended with a rate limit error.
RateLimitedAttempt ==
  /\ variant = "langchain" /\ callpc = "loop"
  /\ invocations' = invocations + 1 /\ outcome' = "rate_limited"

\* The credentials other than the current one whose cooldown is over when the
\* attempt has failed.
OtherKeysReady ==
  {k \in 0..(NumKeys - 1) :
     k # current_key_index /\ CooldownEnd(key_cooldowns, k) <= now'}

\* C22: a rate limited attempt marks the current credential with a cooldown;
\* when another credential is ready the caller is back at the loop head at
\* once, with that credential and without a sleep; when none is, it sleeps
\* the fixed backoff, and the step that ends the sleep clears every cooldown
\* and leads back to the loop head, no invocation having been made meanwhile.
C22_RateLimitedAttempt ==
  [][/\ RateLimitedAttempt =>
          /\ CooldownEnd(key_cooldowns', current_key_index)
               = now' + cooldown_seconds
          /\ IF OtherKeysReady # {}
             THEN /\ callpc' = "loop" /\ wait_time' = 0
                  /\ current_key_index' \in OtherKeysReady
                  /\ llm_key' = KeyAt(api_keys, current_key_index')
                  /\ now' - now \in {0, CallSeconds}
             ELSE /\ callpc' = "waiting" /\ wait_time' = wait
                  /\ llm_key' = llm_key
     /\ (variant = "langchain" /\ callpc = "waiting") =>
          /\ invocations' = invocations
          /\ \/ callpc' = "waiting" /\ now' = now
                  /\ key_cooldowns' = key_cooldowns
             \/ callpc' = "loop" /\ now' = now + wait
                  /\ key_cooldowns' = EmptyMap]_vars

\* With two credentials: the first signal was answered by a rotation, the
\* second by a wait with reset, and the caller is about to retry.
C22_Witness ==
  /\ variant = "langchain" /\ NumKeys = 2 /\ callpc = "loop"
  /\ rate_limits = 2 /\ cycles = 1 /\ current_key_index = 1
  /\ key_cooldowns = EmptyMap

(* ------------------ _rotate_api_key on its own ------------------------- *)

\* Credentials of the pool whose rotation is examined.
MaxPoolKeys == 3

\* The ends of the cooldowns that can be on record when the clock shows
\* cooldown_seconds: one that has just ended and one that has not.
CooldownEnds == {cooldown_seconds, cooldown_seconds + wait}

\* A pool of 1..MaxPoolKeys credentials in any state: any current credential,
\* any set of recorded cooldowns, ended or not.
InitRotate ==
  /\ variant = "langchain" /\ env = "free"
  /\ \E n \in 1..MaxPoolKeys :
       /\ api_keys = [j \in 1..n |-> j]
       /\ current_key_index \in 0..(n - 1)
       /\ \E S \in SUBSET (0..(n - 1)) : key_cooldowns \in [S -> CooldownEnds]
  /\ llm_key = KeyAt(api_keys, current_key_index)
  /\ now = cooldown_seconds /\ slow_calls = 0 /\ throttled_until = EmptyMap
  /\ HistInit /\ LangIdle /\ ProcIdle /\ CompIdle /\ CleanIdle /\ GuiIdle
  /\ RotIdle /\ SmartIdle
  /\ callpc = "idle" /\ total_attempts = 0 /\ attempt = 0 /\ wait_time = 0
  /\ response = <<>> /\ error = "" /\ outcome = "none" /\ invocations = 0

\* self._rotate_api_key(): the index moves to the key found and the client is
\* rebuilt with it; the value returned is recorded.
RotateCall ==
  /\ ~rotation.called
  /\ LET r == RotateApiKey(api_keys, current_key_index, key_cooldowns, now)
     IN /\ current_key_index' = r.index
        /\ llm_key' = IF r.ok THEN KeyAt(api_keys, r.index) ELSE llm_key
        /\ rotation' = [called |-> TRUE, ok |-> r.ok,
                        from |-> current_key_index]
  /\ UNCHANGED <<cleanVars, guiVars, smartVars, langVars, compVars, variant,
                 env, callVars, api_keys, key_cooldowns, envVars, procVars,
                 histVars>>

NextRotate == RotateCall

SpecRotate == InitRotate /\ [][NextRotate]_vars

\* The credentials whose cooldown is over: none on record, or its end <= now.
ReadyKeys ==
  {k \in 0..(NumKeys - 1) : CooldownEnd(key_cooldowns, k) <= now}

\* The credential d places after index from, in cyclic order.
CyclicNext(from, d) == (from + d) % NumKeys

\* The first ready credential in cyclic order starting just after from; the
\* credential at from itself comes last.
FirstReadyAfter(from) ==
  LET d == CHOOSE e \in 1..NumKeys :
             /\ CyclicNext(from, e) \in ReadyKeys
             /\ \A f \in 1..(e - 1) : CyclicNext(from, f) \notin ReadyKeys
  IN CyclicNext(from, d)

C23_RoundRobinFromTwoKeys ==
  (rotation.called /\ NumKeys >= 2) =>
    /\ rotation.ok <=> (ReadyKeys # {})
    /\ rotation.ok =>
         /\ current_key_index \in ReadyKeys
         /\ current_key_index = FirstReadyAfter(rotation.from)
         /\ llm_key = KeyAt(api_keys, current_key_index)

\* A rotation never selects a credential that is cooling down, whatever the
\* size of the pool.
C23_NeverSelectsCoolingKey ==
  (rotation.called /\ rotation.ok) => current_key_index \in ReadyKeys

(* ------------------------ the empty response --------------------------- *)

\* C24: a response without text is a failed attempt that is retried: a call
\* that returns after a successful attempt never returns an empty text.
C24_EmptyIsTransient ==
  (callpc = "returned" /\ outcome = "success") => response # <<>>

\* The callers that test response.text return a successful attempt's text
\* only when there is some.
C24_TestedByApiCallers ==
  (variant \in {"advanced", "smart"} /\ callpc = "returned"
     /\ outcome = "success") => response # <<>>

(* ------------------- the failure that is no rate limit ----------------- *)

\* The attempts one call of the running caller may make.
AttemptBudget ==
  IF variant = "langchain" THEN MaxTotalAttempts(api_keys)
  ELSE MaxRetries(variant)

\* The step is an invocation of the model that failed with an error which the
\* caller does not take for a rate limit.
OtherErrorAttempt ==
  /\ callpc = "loop"
  /\ invocations' = invocations + 1 /\ outcome' = "error"

\* C25: after a failure that is no rate limit the caller sleeps the short
\* fixed delay and goes back to the loop while attempts remain; the failure
\* that uses up the budget is raised to the caller of the call, with the
\* error of that attempt, and neither a sleep nor an invocation follows.
C25_OtherErrorRetriedThenRaised ==
  [][/\ OtherErrorAttempt =>
          IF invocations' < AttemptBudget
          THEN /\ callpc' = "sleeping" /\ wait_time' = retry_sleep
               /\ error' = error
          ELSE /\ callpc' = "raised" /\ wait_time' = 0
               /\ error' \in ApiErrors \cup {"Empty response"}
               /\ IF variant = "langchain" THEN ~IsRateLimitLlm(error')
                  ELSE ~IsRateLimitApi(variant, error')
     /\ (callpc = "sleeping" /\ outcome = "error" /\ callpc' # "sleeping") =>
          /\ callpc' = "loop" /\ invocations' = invocations
          /\ variant = "langchain" => now' = now + retry_sleep
     /\ callpc = "raised" =>
          /\ callpc' = "raised" /\ invocations' = invocations
          /\ now' = now /\ error' = error]_vars

\* A call that failed with another error on every attempt and raised the last
\* one: the multi-key caller with two keys, and the single-key caller.
C25_Witness ==
  /\ callpc = "raised" /\ error = "500 internal error"
  /\ invocations = AttemptBudget
  /\ variant = "langchain" => (NumKeys = 2 /\ rate_limits = 0)

(* ----------------------- map, then reduce ------------------------------ *)

\* The progress events with message msg, in the order reported.
EventsNamed(msg) == SelectSeq(events, LAMBDA e : e.msg = msg)

\* The positions of process() at which the map loop is running.
MapStage == {"map", "map_call"}

\* The positions of process() that lie behind the entry of merge_summaries.
AfterReduceCall == {"reduce_call", "enhance_call", "save_summaries", "done"}

\* C26: the map stage summarizes the chunks one at a time in increasing
\* chunk id and keeps one ChunkSummary per returned call, with the id of its
\* chunk; merge_summaries is entered at most once, only when the call of every
\* chunk has returned, and it is handed one ChunkSummary per chunk in chunk
\* order.
C26_MapThenReduce ==
  variant = "advanced" =>
    /\ Len(summaries) <= Len(chunks)
    /\ \A k \in 1..Len(summaries) :
         /\ summaries[k].chunk_id = chunks[k].chunk_id
         /\ k > 1 => summaries[k - 1].chunk_id < summaries[k].chunk_id
    /\ map_calls - Len(summaries) \in {0, 1}
    /\ pc = "map_call" => map_calls = Len(summaries) + 1
    /\ pc \in {"map"} \cup AfterReduceCall => map_calls = Len(summaries)
    /\ EventsNamed("map_chunk")
         = [k \in 1..map_calls |->
              Event("map_chunk", MapProgress(k - 1, Len(chunks)), k)]
    /\ pc \in AfterReduceCall => Len(EventsNamed("reduce")) = 1
    /\ pc \in {"start", "chunking"} \cup MapStage =>
         Len(EventsNamed("reduce")) = 0
    /\ Len(EventsNamed("reduce")) <= 1
    /\ Len(EventsNamed("reduce")) = 1 =>
         /\ Len(summaries) = Len(chunks)
         /\ map_calls = Len(chunks)
         /\ EventsNamed("map_done") = <<Event("map_done", 70, Len(chunks))>>

\* A run over at least two chunks has been through map and reduce.
C26_Witness ==
  /\ variant = "advanced" /\ pc = "done"
  /\ Len(chunks) >= 2 /\ Len(summaries) = Len(chunks)
  /\ Len(EventsNamed("reduce")) = 1

(* ------------------- the pages two chunks share ------------------------ *)

\* seq[:n]
FirstPages(seq, n) == SubSeq(seq, 1, Min(n, Len(seq)))

\* seq[-n:] for n > 0, nothing for n = 0
LastPages(seq, n) == SubSeq(seq, Max(Len(seq) - n, 0) + 1, Len(seq))

\* C27: with 0 <= overlap < chunk_size, the first overlap pages of every
\* chunk but the first are the last overlap pages of the chunk before it,
\* and no chunk starts after the page it ends with.
C27_ChunksOverlap ==
  (ValidParams /\ ChunksReturned) =>
    /\ \A k \in 1..(Len(chunks) - 1) :
         FirstPages(chunks[k + 1].text, overlap)
           = LastPages(chunks[k].text, overlap)
    /\ \A k \in 1..Len(chunks) : chunks[k].start_page <= chunks[k].end_page

\* The same for the chunks that hold at least overlap pages.
C27_OverlapOfWideChunks ==
  (ValidParams /\ ChunksReturned) =>
    /\ \A k \in 1..(Len(chunks) - 1) :
         Len(chunks[k + 1].text) >= overlap =>
           FirstPages(chunks[k + 1].text, overlap)
             = LastPages(chunks[k].text, overlap)
    /\ \A k \in 1..Len(chunks) : chunks[k].start_page <= chunks[k].end_page

(* ---------------------- the compiler's timeout ------------------------- *)

\* The step is a run of the compiler that subprocess.run ended by its timeout.
TypesetTimedOut ==
  /\ cpc = "typeset" /\ Len(compiled') = Len(compiled) + 1
  /\ typeset_end' = "timeout"

\* C28: a run of the compiler ends, if need be by its timeout; a run that
\* timed out is one failed attempt of the budget with the timeout message as
\* error log, followed by the fix call while attempts remain and by the return
\* of the failure after the last one; compile_latex_to_pdf is never left by an
\* exception of the compiler.
C28_TimeoutIsFailedAttempt ==
  /\ [][TypesetTimedOut =>
          /\ error_log' = "Timeout"
          /\ Len(compiled') <= max_fix_attempts
          /\ fix_attempt' = fix_attempt
          /\ IF Len(compiled') < max_fix_attempts
             THEN /\ cpc' = "fix_call" /\ callpc' = "loop"
                  /\ fix_calls' = fix_calls + 1
                  /\ result' = result
             ELSE /\ cpc' = "returned"
                  /\ result' = Returned(FALSE, "Timeout")
                  /\ fix_calls' = fix_calls]_vars
  /\ [](cpc = "raised" => callpc = "raised")
  /\ (cpc = "typeset") ~> (cpc # "typeset")

\* Two attempts: the first run failed and was followed by a fix call, the
\* second run timed out and the failure was returned.
C28_Witness ==
  /\ cpc = "returned" /\ typeset_end = "timeout"
  /\ max_fix_attempts = 2 /\ Len(compiled) = 2 /\ Len(fixed) = 1
  /\ result = Returned(FALSE, "Timeout")

(* ------------------ one call, or one call per chunk -------------------- *)

\* The progress events that announce a summarization call of the run.
CallEvents ==
  SelectSeq(events, LAMBDA e : e.msg \in {"single_call", "refine_chunk"})

\* The summarization calls the run has entered, each by the chunk number its
\* message shows (0 for the call with the whole text).
SummarizationCalls == [k \in 1..Len(CallEvents) |-> CallEvents[k].n]

\* The positions of process() behind the summarization.
Summarized == {"convert_call", "done"}

\* C29: a document whose estimate, a quarter of its characters, is at most
\* the limit is summarized by exactly one call with the whole text; a longer
\* one by one call per chunk, in chunk order; nothing but the length of the
\* text decides which.
C29_StuffOrChunks ==
  (variant = "langchain" /\ pc # "start") =>
    IF doc_chars \div 4 <= MAX_INPUT_TOKENS
    THEN /\ SummarizationCalls = <<0>>
         /\ EventsNamed("too_big") = <<>>
         /\ pc \in Summarized => total_chunks = 1
    ELSE /\ SummarizationCalls = [k \in 1..Len(CallEvents) |-> k]
         /\ Len(EventsNamed("too_big")) = 1
         /\ Len(CallEvents) \in 1..doc_chunks
         /\ pc = "refine_call" => Len(CallEvents) = refine_index
         /\ pc \in Summarized =>
              (Len(CallEvents) = doc_chunks /\ total_chunks = doc_chunks)

\* The second run on an instance summarized the longest text that is not
\* split, after a first run that was split into two chunks.
C29_Witness ==
  /\ variant = "langchain" /\ pc = "done" /\ runs = 2
  /\ doc_chars = LongestStuffed /\ api_calls = 5
  /\ SummarizationCalls = <<0>>

\* A run summarized a text one character beyond that, in two chunks.
C29_WitnessChunks ==
  /\ variant = "langchain" /\ pc = "done"
  /\ doc_chars = LongestStuffed + 1 /\ doc_chunks = 2
  /\ SummarizationCalls = <<1, 2>>

(* --------------------- the single fenced block ------------------------- *)

\* The routines that clean the working source: after the enhance step, after
\* the conversion and after a fix call.
FenceCleaners == {"_clean_latex", "_convert_to_latex", "compile_latex_to_pdf"}

\* White space a response can have around its fenced block.
Margins == {<<>>, <<" ">>, <<"\n">>}

\* What follows the opening fence on its line.
OpeningTags == {<<>>, <<"latex">>, <<"tex">>}

\* The payloads: one line, two lines, a document.
Payloads == {<<"x">>, <<"x", "\n", "x">>, <<"DOC", "\n", "x">>}

\* The responses that are a single fenced block: the opening fence line, the
\* payload, the closing fence line, with or without white space around.
FencedBlocks ==
  {lead \o <<Fence>> \o tag \o <<"\n">> \o body \o <<"\n", Fence>> \o trail :
     lead \in Margins, tag \in OpeningTags, body \in Payloads,
     trail \in Margins}

\* A source cleaning routine is about to be handed a single fenced block.
InitFenced == CleanReady(FenceCleaners, FencedBlocks)

SpecFenced == InitFenced /\ [][NextClean]_vars

\* The lines between the first and the last line of a fenced block.
InnerPayload(text) ==
  LET t == Strip(text)
  IN SubSeq(t, SetMin(Newlines(t)) + 1, SetMax(Newlines(t)) - 1)

\* Whether a text holds a fence.
HasFence(text) == \E p \in 1..Len(text) : text[p] = Fence

\* C30: the source kept from a response that is a single fenced block, with
\* or without white space around it, is the payload of the block and holds no
\* fence, after a fix call as well as after the enhance or convert step.
C30_FencedBlockUnwrapped ==
  (cleaner \in FenceCleaners /\ clean_in \in FencedBlocks
     /\ clean_pc # "input") =>
    /\ clean_once = InnerPayload(clean_in)
    /\ ~HasFence(clean_once)

\* The same for the cleanups of the enhance and of the convert step.
C30_EnhanceAndConvertUnwrap ==
  (cleaner \in {"_clean_latex", "_convert_to_latex"}
     /\ clean_in \in FencedBlocks /\ clean_pc # "input") =>
    /\ clean_once = InnerPayload(clean_in)
    /\ ~HasFence(clean_once)

\* The same for the cleanup after a fix call when the block has no white
\* space before it and no line end after it.
C30_FixUnwrapsBareBlock ==
  (cleaner = "compile_latex_to_pdf" /\ clean_in \in FencedBlocks
     /\ clean_pc # "input"
     /\ clean_in[1] = Fence /\ clean_in[Len(clean_in)] # "\n") =>
    /\ clean_once = InnerPayload(clean_in)
    /\ ~HasFence(clean_once)

(* --------------------- who changes the key pool ------------------------ *)

\* The step is an invocation of the model that returned or that failed with
\* an error the caller does not take for a rate limit.
OtherAttempt ==
  /\ variant = "langchain" /\ callpc = "loop"
  /\ invocations' = invocations + 1 /\ outcome' \in {"success", "error"}

\* C31: an attempt that succeeds or fails with another error leaves the
\* current index, every cooldown and the client as they are, and so do the
\* sleep after such an error and the exit of the loop; a rate limited attempt
\* sets the cooldown of the credential it used and leaves the cooldowns of
\* the other credentials alone.
C31_PoolChangedByRateLimitOnly ==
  [][/\ OtherAttempt =>
          /\ current_key_index' = current_key_index
          /\ key_cooldowns' = key_cooldowns
          /\ llm_key' = llm_key /\ api_keys' = api_keys
     /\ (/\ variant = "langchain"
         /\ \/ callpc \in {"sleeping", "returned", "raised"}
            \/ callpc = "loop" /\ invocations' = invocations) =>
          /\ current_key_index' = current_key_index
          /\ key_cooldowns' = key_cooldowns
          /\ llm_key' = llm_key /\ api_keys' = api_keys
     /\ RateLimitedAttempt =>
          /\ current_key_index \in DOMAIN key_cooldowns'
          /\ key_cooldowns'[current_key_index] = now' + cooldown_seconds
          /\ \A k \in DOMAIN key_cooldowns' :
               k # current_key_index =>
                 (k \in DOMAIN key_cooldowns
                    /\ key_cooldowns'[k] = key_cooldowns[k])
          /\ api_keys' = api_keys]_vars

\* With two credentials: after a rate limit and a rotation, an attempt on the
\* second credential failed with another error and the next one succeeded,
\* the cooldown of the first credential still on record.
C31_Witness ==
  /\ variant = "langchain" /\ NumKeys = 2 /\ callpc = "returned"
  /\ outcome = "success" /\ invocations = 3 /\ rate_limits = 1
  /\ current_key_index = 1 /\ DOMAIN key_cooldowns = {0}

(* ---------------------- what a chunk adds ------------------------------ *)

\* The pages of chunk k.
PagesOf(k) == {chunks[k].text[j] : j \in 1..Len(chunks[k].text)}

\* The pages of the chunks before chunk k.
PagesBefore(k) == UNION {PagesOf(j) : j \in 1..(k - 1)}

\* C32: with 0 <= overlap < chunk_size every chunk holds a page that no
\* earlier chunk holds.
C32_EveryChunkAddsPage ==
  (ValidParams /\ ChunksReturned) =>
    \A k \in 1..Len(chunks) : PagesOf(k) \ PagesBefore(k) # {}

\* A chunk adds a page when the chunk before it has not reached the last page.
C32_AddsPageBeforeTheEnd ==
  (ValidParams /\ ChunksReturned) =>
    \A k \in 1..Len(chunks) :
      (k = 1 \/ pages[Len(pages)] \notin PagesOf(k - 1)) =>
        PagesOf(k) \ PagesBefore(k) # {}

\* ---------------------------------------------------------------------
\* The notifications of one run of the worker thread
\* ---------------------------------------------------------------------

\* The two notifications that end a run.
Terminals == {"finished_ok", "finished_error"}

\* The terminal notifications the current worker has emitted.
TerminalsEmitted == SelectSeq(emitted, LAMBDA m : m \in Terminals)

\* C33: every run of the worker thread emits exactly one terminal
\* notification: none while process() is running, and once run() has ended
\* exactly one, finished_ok when process() returned and finished_error when
\* it raised, emitted after every progress notification of the run.
C33_OneTerminalNotification ==
  /\ Len(TerminalsEmitted) <= 1
  /\ worker \in {"started", "running"} => TerminalsEmitted = <<>>
  /\ worker = "done" =>
       /\ Len(TerminalsEmitted) = 1
       /\ \A at \in 1..(Len(emitted) - 1) : emitted[at] = "progress"
       /\ \/ run_result = "returned" /\ emitted[Len(emitted)] = "finished_ok"
          \/ run_result = "raised" /\ emitted[Len(emitted)] = "finished_error"

\* A run whose process() raised after all its progress notifications.
C33_Witness ==
  /\ worker = "done" /\ run_result = "raised"
  /\ Len(emitted) = MaxProgress + 1
  /\ emitted[Len(emitted)] = "finished_error"

\* ---------------------------------------------------------------------
\* One worker thread at a time
\* ---------------------------------------------------------------------

\* A terminal notification is queued for the UI thread.
TerminalPending == \E at \in 1..Len(signals) : signals[at] \in Terminals

\* C34: at most one worker thread exists at any time: from the start of a
\* run until its terminal notification has been handled the start button is
\* disabled, and once it has been handled the button is enabled again.
C34_OneWorkerAtATime ==
  /\ alive <= 1
  /\ (alive = 1 \/ TerminalPending) => ~process_btn
  /\ (worker = "done" /\ ~TerminalPending) => process_btn

\* The terminal notification of a run has been handled and a new run may
\* start.
C34_Witness ==
  /\ worker = "done" /\ alive = 0 /\ ~TerminalPending
  /\ process_btn /\ gemini_api_key # ""

(* --------------------- SmartSummarizer: the sections -------------------- *)

\* Pages with text of the analysed document and lines of one page.
MaxSecPages == 2
MaxLines == 3

\* A line of a page matches a HEADING_PATTERN (or the heuristic) or does not.
LineKinds == {"heading", "text"}

\* The texts of one page: 1..MaxLines lines.
PageTexts == UNION {[1..n -> LineKinds] : n \in 1..MaxLines}

\* What _extract_pages returns: the pages with text, by rising page number.
RECURSIVE PagesFrom(_)
PagesFrom(p) ==
  IF p > MaxSecPages THEN {<<>>}
  ELSE LET rest == PagesFrom(p + 1)
       IN rest \cup {<<[page_num |-> p, lines |-> t]>> \o r :
                       t \in PageTexts, r \in rest}

\* The lines of the pages in the order the two loops visit them.
RECURSIVE LinesOf(_)
LinesOf(pgs) ==
  IF pgs = <<>> THEN <<>>
  ELSE [k \in 1..Len(pgs[1].lines) |->
          [page |-> pgs[1].page_num, pos |-> k, kind |-> pgs[1].lines[k]]]
       \o LinesOf(Tail(pgs))

\* A line of text is known by its page and its position on it.
LineId(ln) == <<ln.page, ln.pos>>

\* 'if is_heading and line_stripped:' of one line: the section before is
\* closed if it has text, and a new one begins; any other line is appended
\* to current_text.
ScanLine(st, ln) ==
  IF ln.kind = "heading"
  THEN [out |-> IF st.open /\ st.current_text # <<>>
                THEN Append(st.out,
                            [st.current_section EXCEPT
                               !.text = st.current_text,
                               !.end_page = ln.page - 1])
                ELSE st.out,
        open |-> TRUE,
        current_section |-> [title |-> LineId(ln), start_page |-> ln.page,
                             end_page |-> ln.page, text |-> <<>>],
        current_text |-> <<>>,
        current_start |-> ln.page]
  ELSE [st EXCEPT !.current_text = Append(@, LineId(ln))]

\* The two for loops over the lines.
RECURSIVE ScanLines(_, _)
ScanLines(st, lns) ==
  IF lns = <<>> THEN st ELSE ScanLines(ScanLine(st, Head(lns)), Tail(lns))

\* _identify_sections(pages): the scan, the last section, and the single
\* section "Documento Completo" with every line when none was found.
IdentifySections(pgs) ==
  LET start == [out |-> <<>>, open |-> FALSE,
                current_section |-> [title |-> <<0, 0>>, start_page |-> 0,
                                     end_page |-> 0, text |-> <<>>],
                current_text |-> <<>>, current_start |-> 1]
      st == ScanLines(start, LinesOf(pgs))
      last_page == IF pgs = <<>> THEN st.current_start
                   ELSE pgs[Len(pgs)].page_num
      found == IF st.open /\ st.current_text # <<>>
               THEN Append(st.out, [st.current_section EXCEPT
                                      !.text = st.current_text,
                                      !.end_page = last_page])
               ELSE st.out
      all == LinesOf(pgs)
  IN IF found # <<>> THEN found
     ELSE <<[title |-> <<0, 0>>, start_page |-> 1,
             end_page |-> IF pgs = <<>> THEN 1 ELSE pgs[Len(pgs)].page_num,
             text |-> [k \in 1..Len(all) |-> LineId(all[k])]]>>

\* analyze_document: sections = self._identify_sections(pages_data).
IdentifySectionsCall ==
  /\ sections = <<>>
  /\ sections' = IdentifySections(pages_data)
  /\ UNCHANGED <<variant, env, callVars, poolVars, envVars, procVars,
                 histVars, langVars, compVars, cleanVars, guiVars, rotVars,
                 pages_data, all_terms, content_terms, content_words, coverage>>

\* A document has been read and its sections are about to be identified.
InitSections ==
  /\ variant = "smart" /\ env = "free"
  /\ PoolInit(0)
  /\ EnvInit /\ HistInit /\ LangIdle /\ ProcIdle /\ CompIdle /\ CleanIdle
  /\ GuiIdle /\ RotIdle
  /\ callpc = "idle" /\ total_attempts = 0 /\ attempt = 0 /\ wait_time = 0
  /\ response = <<>> /\ error = "" /\ outcome = "none" /\ invocations = 0
  /\ pages_data \in PagesFrom(1)
  /\ sections = <<>>
  /\ all_terms = <<>> /\ content_terms = {} /\ content_words = {}
  /\ coverage = [found |-> 0, total |-> 0, percentage |-> 0, missing |-> {}]

NextSections == IdentifySectionsCall

SpecSections == InitSections /\ [][NextSections]_vars

\* The lines of text of the pages, in page order.
TextLines ==
  LET all == SelectSeq(LinesOf(pages_data), LAMBDA ln : ln.kind = "text")
  IN [k \in 1..Len(all) |-> LineId(all[k])]

\* The elements of a sequence.
RangeOf(s) == {s[k] : k \in 1..Len(s)}

\* The texts of the sections one after the other, headings left out.
RECURSIVE SectionTexts(_)
SectionTexts(secs) ==
  IF secs = <<>> THEN <<>>
  ELSE SelectSeq(secs[1].text, LAMBDA id : id \in RangeOf(TextLines))
       \o SectionTexts(Tail(secs))

\* C35: once the sections are identified, every line of text of every page
\* is in the text of exactly one section, in page order: the texts of the
\* sections one after the other are the lines of text of the document.
C35_NoTextDropped ==
  sections # <<>> => SectionTexts(sections) = TextLines

\* From the first heading on no line of text is lost or repeated.
C35_KeptAfterFirstHeading ==
  sections # <<>> =>
    LET all == LinesOf(pages_data)
        heads == {k \in 1..Len(all) : all[k].kind = "heading"}
        kept == IF heads = {} \/ sections[1].title = <<0, 0>> THEN all
                ELSE SubSeq(all, SetMin(heads), Len(all))
        texts == SelectSeq(kept, LAMBDA ln : ln.kind = "text")
    IN SectionTexts(sections) = [k \in 1..Len(texts) |-> LineId(texts[k])]

\* C36: every section returned has start_page <= end_page.
C36_StartBeforeEnd ==
  \A k \in 1..Len(sections) : sections[k].start_page <= sections[k].end_page

(* ------------------- OutputValidator: the term coverage ---------------- *)

\* Terms extracted from one document.
MaxTerms == 3

\* The texts an extracted term can have.
TermTexts == {"art. 5", "iva"}

\* The lists analysis.all_terms can be: 0..MaxTerms terms, repeats allowed.
TermLists == UNION {[1..n -> TermTexts] : n \in 0..MaxTerms}

\* 'term_lower in content_lower or term.term in content', else
\* 'any(w in content_lower for w in words if len(w) > 4)'.
TermFound(term, whole, by_word) == term \in whole \/ term \in by_word

\* 'total = len(analysis.all_terms) or 1'.
TotalOf(terms) == IF Len(terms) = 0 THEN 1 ELSE Len(terms)

\* '(found / total) * 100', kept as the fraction num / den.
PercentageOf(found, total) == [num |-> found * 100, den |-> total]

\* _calculate_coverage(content, analysis).
CalculateCoverage(terms, whole, by_word) ==
  LET hits == {k \in 1..Len(terms) : TermFound(terms[k], whole, by_word)}
      total == TotalOf(terms)
  IN [found |-> Cardinality(hits),
      total |-> total,
      percentage |-> PercentageOf(Cardinality(hits), total),
      missing |-> {terms[k] : k \in (1..Len(terms)) \ hits}]

\* validate: coverage = self._calculate_coverage(content, analysis).
CalculateCoverageCall ==
  /\ coverage.total = 0
  /\ coverage' = CalculateCoverage(all_terms, content_terms, content_words)
  /\ UNCHANGED <<variant, env, callVars, poolVars, envVars, procVars,
                 histVars, langVars, compVars, cleanVars, guiVars, rotVars,
                 pages_data, sections, all_terms, content_terms, content_words>>

\* An output is about to be validated against the terms of its document.
InitCoverage ==
  /\ variant = "smart" /\ env = "free"
  /\ PoolInit(0)
  /\ EnvInit /\ HistInit /\ LangIdle /\ ProcIdle /\ CompIdle /\ CleanIdle
  /\ GuiIdle /\ RotIdle
  /\ callpc = "idle" /\ total_attempts = 0 /\ attempt = 0 /\ wait_time = 0
  /\ response = <<>> /\ error = "" /\ outcome = "none" /\ invocations = 0
  /\ pages_data = <<>> /\ sections = <<>>
  /\ all_terms \in TermLists
  /\ content_terms \in SUBSET TermTexts /\ content_words \in SUBSET TermTexts
  /\ coverage = [found |-> 0, total |-> 0, percentage |-> 0, missing |-> {}]

NextCoverage == CalculateCoverageCall

SpecCoverage == InitCoverage /\ [][NextCoverage]_vars

\* The dict has been returned.
Validated == coverage.total # 0

\* C38: the coverage returned has 0 <= found <= number of extracted terms
\* and 0 <= percentage <= 100, and the percentage is 100 exactly when the
\* list of missing terms is empty, also when no term was extracted.
C38_CoverageBounds ==
  Validated =>
    /\ 0 <= coverage.found /\ coverage.found <= Len(all_terms)
    /\ 0 <= coverage.percentage.num
    /\ coverage.percentage.num <= 100 * coverage.percentage.den
    /\ (coverage.percentage.num = 100 * coverage.percentage.den)
         <=> (coverage.missing = {})

\* With at least one term extracted the percentage is 100 exactly when no
\* term is missing; the counts and the percentage are always within range.
C38_WithTermsExtracted ==
  Validated =>
    /\ 0 <= coverage.found /\ coverage.found <= Len(all_terms)
    /\ 0 <= coverage.percentage.num
    /\ coverage.percentage.num <= 100 * coverage.percentage.den
    /\ all_terms # <<>> =>
         ((coverage.percentage.num = 100 * coverage.percentage.den)
            <=> (coverage.missing = {}))

(* ------------------ _refine_summarize on a list of chunks --------------- *)

\* 'return "Nessun contenuto da elaborare."'
NoContent == <<"Nessun contenuto da elaborare.">>

\* _refine_summarize(chunks) is entered: report 25; without chunks the fixed
\* text is returned at once and the caller goes on with it (summary text
\* written, _convert_to_latex reports 85 and enters the caller); else report
\* 30 and the call for the first chunk is entered.
RefineStart ==
  /\ variant = "langchain" /\ pc = "refine_entry"
  /\ IF doc_chunks = 0
     THEN /\ summary' = NoContent
          /\ events' = events \o <<Event("refine", 25, 0),
                                   Event("convert", 85, 0)>>
          /\ files' = files \cup {[name |-> "summary_txt",
                                   content |-> NoContent]}
          /\ pc' = "convert_call"
          /\ UNCHANGED refine_index
     ELSE /\ events' = events \o <<Event("refine", 25, 0),
                                   Event("refine_chunk", 30, 1)>>
          /\ refine_index' = 1
          /\ pc' = "refine_call"
          /\ UNCHANGED <<summary, files>>
  /\ EnterLlm
  /\ UNCHANGED <<sideVars, compVars, variant, env, poolVars, envVars,
                 chunkVars, big, doc_chunks, current_summary, api_calls,
                 total_chunks, invoked, runs, doc_chars>>

\* _refine_summarize is about to be called on a list of 0..MaxDocChunks
\* chunks, in front of a model that always answers.
InitRefine ==
  /\ variant = "langchain" /\ env = "calm"
  /\ \E n \in 0..MaxKeys : PoolInit(n)
  /\ EnvInit
  /\ HistInit /\ CompIdle /\ CleanIdle /\ GuiIdle /\ RotIdle /\ SmartIdle
  /\ callpc = "idle" /\ total_attempts = 0 /\ attempt = 0 /\ wait_time = 0
  /\ response = <<>> /\ error = "" /\ outcome = "none" /\ invocations = 0
  /\ pages = <<>> /\ chunk_size = 0 /\ overlap = 0 /\ i = 0 /\ chunk_id = 0
  /\ chunks = <<>> /\ steps = 0 /\ map_index = 0 /\ map_calls = 0
  /\ summaries = <<>> /\ merged_latex = <<>> /\ final_latex = <<>>
  /\ pc = "refine_entry" /\ files = {} /\ events = <<>>
  /\ doc_chars = 2 * LongestStuffed
  /\ big = TooBig(doc_chars)
  /\ doc_chunks \in 0..MaxDocChunks
  /\ refine_index = 0 /\ current_summary = <<>> /\ summary = <<>>
  /\ api_calls = 0 /\ total_chunks = doc_chunks /\ invoked = 0 /\ runs = 1

\* With such a model every invocation returns a text, so the caller takes no
\* other step than LlmInvokeOk and no call raises.
NextRefine ==
  \/ RefineStart
  \/ RefineReturn
  \/ ConvertReturn
  \/ LlmInvokeOk

SpecRefine == InitRefine /\ [][NextRefine]_vars

\* The chunk numbers of the summarization calls entered so far.
RefineCalls ==
  LET es == EventsNamed("refine_chunk")
  IN [k \in 1..Len(es) |-> es[k].n]

\* A summarization call of _refine_summarize returns in this step.
RefineCallReturns ==
  pc = "refine_call" /\ callpc = "returned" /\ api_calls' = api_calls + 1

\* C37: _refine_summarize over n >= 1 chunks enters one summarization call
\* per chunk, in chunk order, n in all once it has returned; the summary a
\* call returns is the existing summary of the next call, which nothing else
\* changes, and the summary of the last call is the one returned; over no
\* chunks no call is made and the fixed text is returned.
C37_RefineChain ==
  /\ [](/\ RefineCalls = [k \in 1..Len(RefineCalls) |-> k]
        /\ Len(RefineCalls) <= doc_chunks
        /\ pc = "refine_call" => Len(RefineCalls) = refine_index
        /\ pc \in Summarized =>
             /\ Len(RefineCalls) = doc_chunks
             /\ doc_chunks = 0 => summary = NoContent
             /\ doc_chunks > 0 => summary = current_summary
        /\ (pc = "convert_call" /\ doc_chunks = 0) =>
             (api_calls = 0 /\ invoked = 0))
  /\ [][/\ RefineCallReturns =>
             /\ current_summary' = response
             /\ IF refine_index < doc_chunks
                THEN /\ pc' = "refine_call"
                     /\ refine_index' = refine_index + 1
                ELSE pc' = "convert_call" /\ summary' = response
        /\ ~RefineCallReturns => current_summary' = current_summary]_vars

\* Two chunks were refined: the second call returned another text than the
\* first, and that text is the summary.
C37_Witness ==
  /\ pc = "convert_call" /\ doc_chunks = MaxDocChunks
  /\ RefineCalls = [k \in 1..MaxDocChunks |-> k]
  /\ summary = FencedText /\ rate_limits = 0 /\ api_calls = MaxDocChunks

\* No chunk: the fixed text, no call.
C37_WitnessNoChunks ==
  /\ pc = "convert_call" /\ doc_chunks = 0 /\ summary = NoContent
  /\ api_calls = 0

\* ---------------------------------------------------------------------
\* The client and the current credential
\* ---------------------------------------------------------------------

\* C39: whenever _call_llm_with_retry invokes the model, the client is the
\* one built with api_keys[current_key_index]: this holds in every state of
\* an instance with credentials, a step that moves the index (a rotation
\* that returns true) rebuilds the client with the credential at the new
\* index, and any other step (a rotation that returns false among them)
\* leaves the index and the client as they were.
C39_ClientOfCurrentKey ==
  /\ []((variant = "langchain" /\ NumKeys > 0) =>
          llm_key = KeyAt(api_keys, current_key_index))
  /\ [][IF current_key_index' # current_key_index
        THEN llm_key' = KeyAt(api_keys, current_key_index')
        ELSE llm_key' = llm_key]_vars

\* The model answered the client of the second credential after a rotation.
C39_Witness ==
  /\ variant = "langchain" /\ NumKeys = 2 /\ current_key_index = 1
  /\ llm_key = KeyAt(api_keys, 1)
  /\ rate_limits >= 1 /\ outcome = "success" /\ callpc = "returned"

\* A rotation found every credential cooling down: after the wait the call
\* goes on with the credential and the client it had.
C39_WitnessNoRotation ==
  /\ variant = "langchain" /\ NumKeys = 2 /\ cycles >= 1
  /\ callpc = "loop" /\ llm_key = KeyAt(api_keys, current_key_index)

============================================================================
